---------------------------- MODULE Spec2Model ----------------------------
(***************************************************************************)
(* A model of the maintenance scripts under src/code_maintenance: the      *)
(* ignore-file loaders, the gitwildmatch matcher they hand their patterns  *)
(* to, the directory walks that select files, and the end-of-file          *)
(* normaliser of fix_eof.py.                                               *)
(*                                                                         *)
(* Text is modelled as sequences of one-character strings, so that the     *)
(* string operations of the code (strip, split, endswith, ...) are         *)
(* computed and not assumed.  A path relative to the walk root is the      *)
(* sequence of its names; a name is a sequence of characters.              *)
(***************************************************************************)
EXTENDS Integers, Sequences, FiniteSets, TLC

VARIABLES
    tool,         \* the script being run (selects its loader and its walk)
    ignoreFiles,  \* contents of IGNORE_FILES under the root: NoFile or lines
    tree,         \* the file system under the root
    pc,           \* position of the script
    patterns,     \* the final pattern list handed to PathSpec.from_lines
    ignore_spec,  \* the PathSpec compiled from it
    stack,        \* the work stack (stack walks) or the call stack (recursion)
    out,          \* the paths produced so far
    total,        \* total_entries of the counting pass
    disk,         \* fix_eof: the bytes of the file being normalised
    hist,         \* fix_eof: the bytes before and after each application
    mode,         \* fix_eof: permissions and size padding of the file
    runs,         \* fix_eof: return value of each application so far
    writes,       \* fix_eof: number of successful writes of each application
    root,         \* what the root path given to the script is on disk
    exc,          \* the exception that ended the script, "" if none did
    exit_code,    \* the exit status of the script, Running until it exits
    cacheFile,    \* orchestrators: the script-path cache file on disk
    cache_data,   \* orchestrators: what load_cache returned
    updated_cache,\* orchestrators: the mapping built for save_cache
    script_paths, \* orchestrators: the scripts located, in order
    scanned,      \* orchestrators: names the locating loop has gone through
    saved_cache,  \* orchestrators: what save_cache wrote, NotSaved if nothing
    started,      \* orchestrators: the children run so far and their status
    code_files,   \* file tools: the files handed to the processing loop
    orig,         \* file tools: the same files as they were at the start
    done,         \* file tools: files the loop has gone through
    log,          \* file tools: the records logged
    invoked,      \* file tools: the external commands run
    dry_run,      \* file tools: the --dry-run flag
    fatal,        \* file tools: the fatal conditions met so far
    env,          \* file tools: what the tool finds around it
    markers,      \* root discovery: the marker in each directory of the chain
    start_path,   \* root discovery: the directory the search starts in
    env_root,     \* root discovery: the variable PROJECT_ROOT_CACHE
    args_root,    \* root discovery: the value of --root
    PROJECT_ROOT, \* root discovery: the module-level root of fix_eof
    project_root, \* root discovery: the root the tool works on
    logs,         \* maintain: the log files fix_eof has left
    log_root,     \* maintain: whether fix_eof logs under maintain's root
    pip,          \* update_venv: the state of the environment
    attempt,      \* update_venv: the passes of resolve_conflicts begun
    resolved      \* update_venv: what resolve_conflicts has returned

walkVars == <<tool, ignoreFiles, tree, pc, patterns, ignore_spec, stack, out,
              total>>
eofVars  == <<disk, hist, mode, runs, writes>>
procVars == <<root, exc, exit_code>>
orchVars == <<cacheFile, cache_data, updated_cache, script_paths, scanned,
              saved_cache, started>>
fileVars == <<code_files, orig, done, log, invoked, dry_run, fatal, env>>
rootVars == <<markers, start_path, env_root, args_root, PROJECT_ROOT, project_root>>
logVars  == <<logs, log_root>>
pipVars  == <<pip, attempt, resolved>>
vars     == <<tool, ignoreFiles, tree, pc, patterns, ignore_spec, stack, out,
              total, disk, hist, mode, runs, writes, root, exc, exit_code,
              cacheFile, cache_data, updated_cache, script_paths, scanned,
              saved_cache, started,
              code_files, orig, done, log, invoked, dry_run, fatal, env,
              markers, start_path, env_root, args_root, PROJECT_ROOT, project_root,
              logs, log_root, pip, attempt, resolved>>

---------------------------------------------------------------------------
(* Bounds of the model.                                                    *)

\* lines of the .gitignore drawn for a walk
MaxLines == 2
\* lines of the .gitignore drawn for a loader run
MaxLoadLines == 2
\* symbolic links one path resolution may cross before the kernel fails it
\* with ELOOP (40 on Linux)
SymlinkLimit == 2
\* characters one path may hold before the kernel fails it with ENAMETOOLONG
\* (PATH_MAX, 4096 bytes on Linux): names of one or two characters meet
\* SymlinkLimit first, a link with a name of more than PathMax \div
\* SymlinkLimit characters meets PathMax first
PathMax == 20
\* bytes of the materialised tail of a file given to the EOF normaliser
MaxTail == 3
\* applications of the EOF normaliser to the same file
MaxApply == 2

---------------------------------------------------------------------------
(* Python str operations on character sequences.                           *)

IsSpace(c) == c \in {" ", "\t"}

RECURSIVE lstrip(_)
lstrip(s) == IF s # <<>> /\ IsSpace(Head(s)) THEN lstrip(Tail(s)) ELSE s

RECURSIVE rstrip(_)
rstrip(s) ==
    IF s # <<>> /\ IsSpace(s[Len(s)]) THEN rstrip(SubSeq(s, 1, Len(s) - 1)) ELSE s

strip(s) == lstrip(rstrip(s))

RECURSIVE lstripChar(_, _)
lstripChar(s, c) == IF s # <<>> /\ Head(s) = c THEN lstripChar(Tail(s), c) ELSE s

RECURSIVE rstripChar(_, _)
rstripChar(s, c) ==
    IF s # <<>> /\ s[Len(s)] = c THEN rstripChar(SubSeq(s, 1, Len(s) - 1), c) ELSE s

startswith(s, c) == s # <<>> /\ Head(s) = c
endswith(s, c) == s # <<>> /\ s[Len(s)] = c
Contains(s, c) == \E i \in 1..Len(s) : s[i] = c

\* s.split(c, 1)[0]: the text before the first c (all of s when there is none)
SplitFirst(s, c) ==
    IF Contains(s, c)
    THEN LET i == CHOOSE k \in 1..Len(s) :
                      s[k] = c /\ \A j \in 1..(k - 1) : s[j] # c
         IN  SubSeq(s, 1, i - 1)
    ELSE s

\* s.split(c): the pieces between the occurrences of c
RECURSIVE SplitFrom(_, _, _, _)
SplitFrom(s, c, start, i) ==
    IF i > Len(s) THEN <<SubSeq(s, start, Len(s))>>
    ELSE IF s[i] = c
         THEN <<SubSeq(s, start, i - 1)>> \o SplitFrom(s, c, i + 1, i + 1)
         ELSE SplitFrom(s, c, start, i + 1)

Split(s, c) == SplitFrom(s, c, 1, 1)

\* the value of a one-element set
Only(S) == CHOOSE x \in S : TRUE

RECURSIVE Flatten(_)
Flatten(ss) == IF ss = <<>> THEN <<>> ELSE Head(ss) \o Flatten(Tail(ss))

---------------------------------------------------------------------------
(* The ignore-file loaders.  Each returns the list given to                *)
(* PathSpec.from_lines.  A file is NoFile (absent) or its lines.           *)

NoFile == [exists |-> FALSE, lines |-> <<>>]
File(ls) == [exists |-> TRUE, lines |-> ls]

GIT == <<".","g","i","t">>
GIT_SLASH == <<".","g","i","t","/">>
GIT_ALL == <<".","g","i","t","/","*","*">>
STARSTAR == <<"/","*","*">>

\* a missing file read as if it held the line "d"
LinesOf_missing_as_line(f) == IF f.exists THEN f.lines ELSE <<<<"d">>>>

\* `if not ignore_path.exists(): continue`, else read_text().splitlines()
LinesOf(f) == IF f.exists THEN f.lines ELSE <<>>

\* "dirname/" -> ["dirname", "dirname/**"], every other pattern as it is
ExpandDir(pat) ==
    IF endswith(pat, "/")
    THEN <<rstripChar(pat, "/"), rstripChar(pat, "/") \o STARSTAR>>
    ELSE <<pat>>

RECURSIVE ExpandFrom(_, _)
ExpandFrom(pats, i) ==
    IF i > Len(pats) THEN <<>> ELSE ExpandDir(pats[i]) \o ExpandFrom(pats, i + 1)

ExpandAll(pats) == Only({ExpandFrom(ps, 1) : ps \in {pats}})

\* raw.split("#", 1)[0].rstrip() when raw holds a '#', raw.rstrip() otherwise
StripInline(raw) ==
    IF Contains(raw, "#") THEN rstrip(SplitFirst(raw, "#")) ELSE rstrip(raw)

OneOrNone(pat) == IF pat # <<>> THEN <<pat>> ELSE <<>>

\* fix_eof.py and fix_indentation.py: a comment line gives stripped[1:].strip()
LineCombined(raw) ==
    IF strip(raw) = <<>> THEN <<>>
    ELSE IF startswith(lstrip(raw), "#")
         THEN OneOrNone(strip(Tail(lstrip(raw))))
         ELSE OneOrNone(strip(StripInline(raw)))

\* run_all.py and lint_and_format.py: a comment line gives line.lstrip("#").strip()
LineStripped(raw) ==
    IF strip(raw) = <<>> THEN <<>>
    ELSE IF startswith(strip(raw), "#")
         THEN OneOrNone(strip(lstripChar(strip(raw), "#")))
         ELSE OneOrNone(strip(StripInline(raw)))

\* project_analytics.py, maintain.py, update_all.py: the candidate of a
\* pattern line is only right-stripped
LineAnalytics(raw) ==
    IF strip(raw) = <<>> THEN <<>>
    ELSE IF startswith(strip(raw), "#")
         THEN OneOrNone(strip(lstripChar(strip(raw), "#")))
         ELSE OneOrNone(StripInline(raw))

\* project_structure.py: comment lines are skipped, nothing is cut at '#'
LineStructure(raw) ==
    IF strip(raw) = <<>> \/ startswith(strip(raw), "#") THEN <<>>
    ELSE <<strip(raw)>>

LineOf(raw, variant) ==
    CASE variant = "combined"  -> LineCombined(raw)
      [] variant = "stripped"  -> LineStripped(raw)
      [] variant = "analytics" -> LineAnalytics(raw)
      [] variant = "structure" -> LineStructure(raw)

RECURSIVE MapFrom(_, _, _)
MapFrom(lines, variant, i) ==
    IF i > Len(lines) THEN <<>>
    ELSE Only({LineOf(raw, variant) : raw \in {lines[i]}})
         \o MapFrom(lines, variant, i + 1)

\* the loop over the lines of one file
MapLines(lines, variant) == Only({MapFrom(ls, variant, 1) : ls \in {lines}})

\* fix_eof.py: all of IGNORE_FILES, then .git and .git/**, then the expansion
load_combined_ignore_spec(files) ==
    ExpandAll(MapLines(Flatten([i \in 1..Len(files) |-> LinesOf(files[i])]),
                       "combined")
              \o <<GIT, GIT_ALL>>)

\* fix_indentation.py
load_ignore_patterns_indent(files) ==
    ExpandAll(MapLines(LinesOf(files[1]), "combined") \o <<GIT_SLASH, GIT>>)

\* lint_and_format.py
load_ignore_spec_lint(files) ==
    ExpandAll(MapLines(LinesOf(files[1]), "stripped") \o <<GIT_SLASH, GIT>>)

\* run_all.py
load_ignore_spec_run_all(files) ==
    ExpandAll(MapLines(LinesOf(files[1]), "stripped") \o <<GIT, GIT_ALL>>)

\* organization/project_analytics.py (maintain.py and update_all.py alike)
load_ignore_patterns_org(files) ==
    ExpandAll(MapLines(LinesOf(files[1]), "analytics") \o <<GIT, GIT_ALL>>)

\* code_utils/project_analytics.py: no implicit rules, no expansion
load_ignore_patterns_cu(files) ==
    IF ~files[1].exists THEN <<>> ELSE MapLines(LinesOf(files[1]), "analytics")

\* organization/project_structure.py: expansion in place, no implicit rules
load_gitignore_patterns_org(files) ==
    ExpandAll(MapLines(LinesOf(files[1]), "structure"))

\* code_utils/project_structure.py: no expansion, no implicit rules
load_gitignore_patterns_cu(files) ==
    MapLines(LinesOf(files[1]), "structure")

---------------------------------------------------------------------------
(* pathspec's gitwildmatch, as the scripts use it: PathSpec.from_lines     *)
(* compiles each pattern, PathSpec.match_file lets the last pattern that   *)
(* matches decide.  A compiled pattern is its include flag ("yes", "no"    *)
(* for a negation, "none" for a line that is no pattern) and its           *)
(* normalised segments.                                                    *)

DSTAR == <<"*","*">>

\* consecutive "**" segments collapse into one
RECURSIVE DedupStars(_)
DedupStars(segs) ==
    IF Len(segs) < 2 THEN segs
    ELSE IF segs[1] = DSTAR /\ segs[2] = DSTAR THEN DedupStars(Tail(segs))
         ELSE <<Head(segs)>> \o DedupStars(Tail(segs))

\* leading "/" anchors; a pattern of one segment (with or without a trailing
\* "/") matches at any depth; a trailing "/" stands for "/**"
Anchor(segs) ==
    IF segs[1] = <<>> THEN Tail(segs)
    ELSE IF (Len(segs) = 1 \/ (Len(segs) = 2 /\ segs[2] = <<>>))
            /\ segs[1] # DSTAR
         THEN <<DSTAR>> \o segs
         ELSE segs

Trailing(segs) ==
    IF Len(segs) > 1 /\ segs[Len(segs)] = <<>>
    THEN [segs EXCEPT ![Len(segs)] = DSTAR]
    ELSE segs

NormSegs(segs0) ==
    Only({Trailing(anchored) :
            anchored \in {Anchor(segs) : segs \in {DedupStars(segs0)}}})

CompileStripped(p) ==
    IF p = <<>> \/ startswith(p, "#") \/ p = <<"/">>
    THEN [include |-> "none", segs |-> <<>>]
    ELSE IF startswith(p, "!")
         THEN [include |-> "no",
               segs |-> Only({NormSegs(segs) : segs \in {Split(Tail(p), "/")}})]
         ELSE [include |-> "yes",
               segs |-> Only({NormSegs(segs) : segs \in {Split(p, "/")}})]

Compile(pattern) == Only({CompileStripped(p) : p \in {strip(pattern)}})

\* PathSpec.from_lines("gitwildmatch", patterns)
from_lines(pats) == [i \in 1..Len(pats) |-> Compile(pats[i])]

\* one segment's glob against one name: "*" is [^/]*, "?" one character,
\* a backslash makes the next character literal
RECURSIVE Glob(_, _)
Glob(g, n) ==
    IF g = <<>> THEN n = <<>>
    ELSE IF Head(g) = "\\"
         THEN Len(g) >= 2 /\ n # <<>> /\ Head(n) = g[2]
              /\ Glob(SubSeq(g, 3, Len(g)), Tail(n))
    ELSE IF Head(g) = "*"
         THEN Glob(Tail(g), n) \/ (n # <<>> /\ Glob(g, Tail(n)))
    ELSE IF Head(g) = "?"
         THEN n # <<>> /\ Glob(Tail(g), Tail(n))
    ELSE n # <<>> /\ Head(n) = Head(g) /\ Glob(Tail(g), Tail(n))

\* segments i.. of the pattern against names j.. of the path; this is the
\* regular expression pathspec builds, read on whole names
RECURSIVE SegsMatch(_, _, _, _)
SegsMatch(S, i, P, j) ==
    IF i > Len(S) THEN j > Len(P)
    ELSE IF S[i] = DSTAR
         THEN IF i = 1 /\ i = Len(S) THEN Len(P) >= 1
              ELSE IF i = 1
                   THEN \E k \in 0..(Len(P) - 1) : SegsMatch(S, 2, P, 1 + k)
              ELSE IF i = Len(S) THEN j <= Len(P)
              ELSE \E k \in 0..(Len(P) + 1 - j) : SegsMatch(S, i + 1, P, j + k)
    ELSE j <= Len(P)
         /\ (IF S[i] = <<"*">> THEN TRUE ELSE Glob(S[i], P[j]))
         /\ (i = Len(S) \/ SegsMatch(S, i + 1, P, j + 1))

PatternMatches(compiled, P) ==
    compiled.include # "none" /\ SegsMatch(compiled.segs, 1, P, 1)

\* PathSpec.match_file(str(rel)): the last matching pattern decides
RECURSIVE LastMatch(_, _, _)
LastMatch(spec, P, i) ==
    IF i = 0 THEN FALSE
    ELSE IF PatternMatches(spec[i], P) THEN spec[i].include = "yes"
         ELSE LastMatch(spec, P, i - 1)

match_file(spec, P) == LastMatch(spec, P, Len(spec))

---------------------------------------------------------------------------
(* The file system under the walk root.  An entry is a physical path, its  *)
(* kind and, for a symbolic link, the physical path it points to (a path   *)
(* that is no entry makes the link a broken one).  The root is <<>>.       *)

Dir(p)      == [p |-> p, k |-> "dir",  to |-> <<>>]
Reg(p)      == [p |-> p, k |-> "file", to |-> <<>>]
Link(p, to) == [p |-> p, k |-> "link", to |-> to]

Has(t, p) == p = <<>> \/ \E e \in t : e.p = p
KindOf(t, p) == IF p = <<>> THEN "dir" ELSE (CHOOSE e \in t : e.p = p).k
TargetOf(t, p) == (CHOOSE e \in t : e.p = p).to

\* stat(): resolve the names `rest` from the directory `cur`, following every
\* symbolic link; the kernel gives up with ELOOP past SymlinkLimit links
RECURSIVE Resolve(_, _, _, _)
Resolve(t, cur, rest, n) ==
    IF ~Has(t, cur) THEN [ok |-> FALSE, real |-> <<>>, err |-> "ENOENT"]
    ELSE IF rest = <<>> THEN [ok |-> TRUE, real |-> cur, err |-> ""]
    ELSE IF KindOf(t, cur) # "dir" THEN [ok |-> FALSE, real |-> <<>>, err |-> "ENOTDIR"]
    ELSE LET e == Append(cur, Head(rest))
         IN  IF ~Has(t, e) THEN [ok |-> FALSE, real |-> <<>>, err |-> "ENOENT"]
             ELSE IF KindOf(t, e) = "link"
                  THEN IF n + 1 > SymlinkLimit
                       THEN [ok |-> FALSE, real |-> <<>>, err |-> "ELOOP"]
                       ELSE Resolve(t, TargetOf(t, e), Tail(rest), n + 1)
                  ELSE Resolve(t, e, Tail(rest), n)

\* the length of the path string: every name and the "/" before it
RECURSIVE PathLenFrom(_, _)
PathLenFrom(path, i) ==
    IF i > Len(path) THEN 0 ELSE Len(path[i]) + 1 + PathLenFrom(path, i + 1)

Stat(t, path) ==
    IF PathLenFrom(path, 1) > PathMax
    THEN [ok |-> FALSE, real |-> <<>>, err |-> "ENAMETOOLONG"]
    ELSE Resolve(t, <<>>, path, 0)

\* Path.is_dir() and Path.is_file() follow links and answer False on ENOENT,
\* ENOTDIR and ELOOP; any other OSError is raised (pathlib of Python 3.12,
\* the first interpreter that accepts the f-strings of fix_eof.py)
Raises(t, path) == Stat(t, path).err = "ENAMETOOLONG"

is_dir(t, path)  == \E st \in {Stat(t, path)} : st.ok /\ KindOf(t, st.real) = "dir"
is_file(t, path) == \E st \in {Stat(t, path)} : st.ok /\ KindOf(t, st.real) = "file"

\* Path.iterdir(): the children of the directory the path resolves to, each
\* named under the path as given
iterdir(t, path) ==
    UNION {{Append(path, e.p[Len(e.p)]) :
               e \in {x \in t : Len(x.p) = Len(real) + 1
                                /\ SubSeq(x.p, 1, Len(x.p) - 1) = real}} :
           real \in {Stat(t, path).real}}

\* the order in which the system lists a directory: arbitrary and fixed
RECURSIVE ListingOf(_)
ListingOf(S) ==
    IF S = {} THEN <<>>
    ELSE Only({<<x>> \o Only({ListingOf(T) : T \in {S \ {x}}}) :
                 x \in {CHOOSE y \in S : TRUE}})

Listing(S) == Only({ListingOf(T) : T \in {S}})

\* Path.rglob("*"): every entry under the root; "**" does not cross links
rglob(t) == {e.p : e \in t}

\* str(path.relative_to(root)); the root itself is "."
RelPath(path) == IF path = <<>> THEN <<<<".">>>> ELSE path

\* str.lower() on the letters the model's names use
LowerChar(c) ==
    CASE c = "P" -> "p" [] c = "Y" -> "y" [] c = "U" -> "u" [] OTHER -> c
lower(s) == [i \in 1..Len(s) |-> LowerChar(s[i])]

\* Path.suffix: from the last dot of the name, none for a leading or
\* trailing dot
suffix(name) ==
    LET dots == {i \in 1..Len(name) : name[i] = "."}
        last == CHOOSE i \in dots : \A k \in dots : k <= i
    IN  IF dots = {} THEN <<>>
        ELSE IF last = 1 \/ last = Len(name) THEN <<>>
        ELSE SubSeq(name, last, Len(name))

NameOf(path) == path[Len(path)]

CODE_EXTENSIONS ==
    {<<".","p","y">>, <<".","t","s">>, <<".","t","s","x">>, <<".","j","s">>,
     <<".","j","s","x">>, <<".","j","s","o","n">>, <<".","h","t","m","l">>,
     <<".","c","s","s">>, <<".","s","c","s","s">>, <<".","s","q","l">>,
     <<".","m","d">>, <<".","s","h">>, <<".","y","a","m","l">>,
     <<".","y","m","l">>, <<".","e","n","v">>, <<".","x","m","l">>,
     <<".","s","o","l">>, <<".","g","o">>, <<".","r","s">>, <<".","c">>,
     <<".","c","p","p">>, <<".","h">>, <<".","h","p","p">>,
     <<".","j","a","v","a">>, <<".","k","t">>, <<".","s","w","i","f","t">>,
     <<".","d","a","r","t">>, <<".","t","x","t">>, <<".","c","f","g">>,
     <<".","i","n","i">>}
PY_EXT == {<<".","p","y">>}
JS_EXT ==
    {<<".","j","s">>, <<".","t","s">>, <<".","t","s","x">>, <<".","j","s","x">>}

is_code_file(path) == lower(suffix(NameOf(path))) \in CODE_EXTENSIONS

NODE_MODULES == <<"n","o","d","e","_","m","o","d","u","l","e","s">>
DEFAULT_FOLDER_IGNORES == {NODE_MODULES, GIT}

---------------------------------------------------------------------------
(* The scripts that walk the tree, each with the loader it calls.          *)

FIX_EOF  == "fix_eof"          \* code_utils/fix_eof.py main
LINT     == "lint_and_format"  \* code_utils/lint_and_format.py scan_for_files
COLLECT  == "org_analytics"    \* organization/project_analytics.py
RGLOB    == "cu_analytics"     \* code_utils/project_analytics.py analyze_tree
TREE_ORG == "org_structure"    \* organization/project_structure.py
TREE_CU  == "cu_structure"     \* code_utils/project_structure.py
INDENT   == "fix_indentation"  \* code_utils/fix_indentation.py
RUN_ALL  == "run_all"          \* code_utils/run_all.py
MAINTAIN == "maintain"         \* maintain.py
UPDATE_ALL == "update_all"     \* update_env/update_all.py

Tools == {FIX_EOF, LINT, COLLECT, RGLOB, TREE_ORG}
StackTools == {FIX_EOF, LINT}
Loaders == Tools \cup {TREE_CU, INDENT, RUN_ALL}

\* the loader each script calls
LoaderOf(tl, files) ==
    CASE tl = FIX_EOF  -> load_combined_ignore_spec(files)
      [] tl = LINT     -> load_ignore_spec_lint(files)
      [] tl = COLLECT  -> load_ignore_patterns_org(files)
      [] tl = RGLOB    -> load_ignore_patterns_cu(files)
      [] tl = TREE_ORG -> load_gitignore_patterns_org(files)
      [] tl = TREE_CU  -> load_gitignore_patterns_cu(files)
      [] tl = INDENT   -> load_ignore_patterns_indent(files)
      [] tl = RUN_ALL  -> load_ignore_spec_run_all(files)
      [] tl \in {MAINTAIN, UPDATE_ALL} -> load_ignore_patterns_org(files)

Ignored(path) == match_file(ignore_spec, RelPath(path))

Frame(t, path) == [parent |-> path, children |-> Listing(iterdir(t, path))]

\* the file test of the collecting pass: fix_eof keeps code files,
\* scan_for_files the Python and JS/TS ones
Selected(tl, t, path) ==
    /\ is_file(t, path)
    /\ IF tl = FIX_EOF THEN is_code_file(path)
       ELSE lower(suffix(NameOf(path))) \in (PY_EXT \cup JS_EXT)

\* the children of a popped frame that the loop body does not `continue` on
Visited(children) == SelectSeq(children, LAMBDA c : ~Ignored(c))

\* the frames the loop body pushes: one per visited child that is_dir()
Pushed(t, visited) ==
    Only({[i \in 1..Len(dirs) |-> Frame(t, dirs[i])] :
            dirs \in {SelectSeq(visited, LAMBDA c : is_dir(t, c))}})

Top(stk) == stk[Len(stk)]
Pop(stk) == SubSeq(stk, 1, Len(stk) - 1)

\* the exit status of a script that has not exited
Running == -1

\* a script that an uncaught exception stops exits with status 1
EndsOn(e) ==
    /\ exc' = (IF pc' = "error" THEN e ELSE exc)
    /\ exit_code' = (IF pc' = "error" THEN 1 ELSE exit_code)

\* the ignore files are read, the pattern list is built and the walk is set
\* up: list(project_root.iterdir()) raises when the root is no directory
Load ==
    /\ pc = "load"
    /\ \E pats \in {LoaderOf(tool, ignoreFiles)} :
          patterns' = pats /\ ignore_spec' = from_lines(pats)
    /\ total' = 0
    /\ IF root # "dir"
       THEN /\ pc' = "error"
            /\ stack' = <<>>
            /\ out' = {}
       ELSE IF tool \in StackTools
       THEN /\ pc' = "count"
            /\ stack' = <<Frame(tree, <<>>)>>
            /\ out' = {}
       ELSE IF tool = COLLECT
       THEN /\ pc' = "recurse"
            /\ stack' = <<Frame(tree, <<>>)>>
            /\ out' = IF match_file(ignore_spec', RelPath(<<>>)) THEN {} ELSE {<<>>}
       ELSE /\ pc' = IF tool = RGLOB THEN "rglob" ELSE "build"
            /\ stack' = <<>>
            /\ out' = {}
    /\ EndsOn(IF root = "missing" THEN "FileNotFoundError"
               ELSE "NotADirectoryError")
    /\ UNCHANGED <<tool, ignoreFiles, tree>>
    /\ UNCHANGED <<eofVars, root, orchVars, fileVars>>
    /\ UNCHANGED <<rootVars, logVars, pipVars>>

\* an OSError that is_dir() or is_file() lets through ends the script
Aborts(t, visited) == \E i \in 1..Len(visited) : Raises(t, visited[i])

\* first pass of the stack walk: one iteration of `while stack`
CountStep ==
    /\ pc = "count" /\ stack # <<>>
    /\ \E visited \in {Visited(Top(stack).children)} :
          IF Aborts(tree, visited)
          THEN pc' = "error" /\ UNCHANGED <<total, stack>>
          ELSE /\ total' = total + Len(visited)
               /\ stack' = Pop(stack) \o Pushed(tree, visited)
               /\ pc' = pc
    /\ UNCHANGED <<tool, ignoreFiles, tree, patterns, ignore_spec, out>>
    /\ EndsOn("OSError")
    /\ UNCHANGED <<eofVars, root, orchVars, fileVars>>
    /\ UNCHANGED <<rootVars, logVars, pipVars>>

\* the first pass is over: the second starts unless nothing was counted
CountDone ==
    /\ pc = "count" /\ stack = <<>>
    /\ IF total > 0
       THEN pc' = "scan" /\ stack' = <<Frame(tree, <<>>)>>
       ELSE pc' = "done" /\ stack' = <<>>
    /\ UNCHANGED <<tool, ignoreFiles, tree, patterns, ignore_spec, out, total>>
    /\ UNCHANGED <<eofVars, procVars, orchVars, fileVars>>
    /\ UNCHANGED <<rootVars, logVars, pipVars>>

\* second pass of the stack walk: one iteration of `while stack`
ScanStep ==
    /\ pc = "scan" /\ stack # <<>>
    /\ \E visited \in {Visited(Top(stack).children)} :
          IF Aborts(tree, visited)
          THEN pc' = "error" /\ UNCHANGED <<out, stack>>
          ELSE /\ out' = out \cup
                      {c \in {visited[i] : i \in 1..Len(visited)} :
                          ~is_dir(tree, c) /\ Selected(tool, tree, c)}
               /\ stack' = Pop(stack) \o Pushed(tree, visited)
               /\ pc' = pc
    /\ UNCHANGED <<tool, ignoreFiles, tree, patterns, ignore_spec, total>>
    /\ EndsOn("OSError")
    /\ UNCHANGED <<eofVars, root, orchVars, fileVars>>
    /\ UNCHANGED <<rootVars, logVars, pipVars>>

ScanDone ==
    /\ pc = "scan" /\ stack = <<>>
    /\ pc' = "done"
    /\ UNCHANGED <<tool, ignoreFiles, tree, patterns, ignore_spec, stack, out, total>>
    /\ UNCHANGED <<eofVars, procVars, orchVars, fileVars>>
    /\ UNCHANGED <<rootVars, logVars, pipVars>>

\* collect_non_ignored: recurse(child) for the next child of the innermost
\* directory being listed
RecurseCall ==
    /\ pc = "recurse" /\ stack # <<>> /\ Top(stack).children # <<>>
    /\ LET child == Head(Top(stack).children)
           rest  == Pop(stack) \o
                    <<[Top(stack) EXCEPT !.children = Tail(Top(stack).children)]>>
       IN  IF Ignored(child)
           THEN out' = out /\ stack' = rest /\ pc' = pc
           ELSE /\ out' = out \cup {child}
                /\ IF Raises(tree, child)
                   THEN pc' = "error" /\ stack' = stack
                   ELSE /\ pc' = pc
                        /\ stack' = IF is_dir(tree, child)
                                    THEN rest \o <<Frame(tree, child)>>
                                    ELSE rest
    /\ UNCHANGED <<tool, ignoreFiles, tree, patterns, ignore_spec, total>>
    /\ EndsOn("OSError")
    /\ UNCHANGED <<eofVars, root, orchVars, fileVars>>
    /\ UNCHANGED <<rootVars, logVars, pipVars>>

\* collect_non_ignored: a directory's loop is over; the last return ends it
RecurseReturn ==
    /\ pc = "recurse" /\ stack # <<>> /\ Top(stack).children = <<>>
    /\ stack' = Pop(stack)
    /\ pc' = IF Len(stack) = 1 THEN "done" ELSE "recurse"
    /\ UNCHANGED <<tool, ignoreFiles, tree, patterns, ignore_spec, out, total>>
    /\ UNCHANGED <<eofVars, procVars, orchVars, fileVars>>
    /\ UNCHANGED <<rootVars, logVars, pipVars>>

\* code_utils/project_analytics.analyze_tree: list everything, then filter
AnalyzeRglob ==
    /\ pc = "rglob"
    /\ out' = {q \in rglob(tree) :
                  ~Ignored(q) /\ (is_dir(tree, q) \/ is_file(tree, q))}
    /\ pc' = "done"
    /\ UNCHANGED <<tool, ignoreFiles, tree, patterns, ignore_spec, stack, total>>
    /\ UNCHANGED <<eofVars, procVars, orchVars, fileVars>>
    /\ UNCHANGED <<rootVars, logVars, pipVars>>

ROOT_NAME == <<"p">>
PathName(path) == IF path = <<>> THEN ROOT_NAME ELSE NameOf(path)

\* node_for without the match_file test: only the basename test is left
RECURSIVE node_for_names_only(_, _, _)
node_for_names_only(t, pats, path) ==
    IF PathName(path) \in DEFAULT_FOLDER_IGNORES
    THEN {}
    ELSE {path} \cup
         (IF is_dir(t, path)
          THEN UNION {node_for_names_only(t, pats, c) : c \in iterdir(t, path)}
          ELSE {})

\* organization/project_structure.build_tree_pythonic: the paths of the nodes
RECURSIVE node_for(_, _, _)
node_for(t, pats, path) ==
    IF match_file(pats, RelPath(path)) \/ PathName(path) \in DEFAULT_FOLDER_IGNORES
    THEN {}
    ELSE {path} \cup
         (IF is_dir(t, path)
          THEN UNION {node_for(t, pats, c) : c \in iterdir(t, path)}
          ELSE {})

BuildTree ==
    /\ pc = "build"
    /\ out' = (IF node_for(tree, ignore_spec, <<>>) = {} THEN {<<>>}
               ELSE node_for(tree, ignore_spec, <<>>))
    /\ pc' = IF \E q \in node_for(tree, ignore_spec, <<>>) : Raises(tree, q)
             THEN "error" ELSE "done"
    /\ UNCHANGED <<tool, ignoreFiles, tree, patterns, ignore_spec, stack, total>>
    /\ EndsOn("OSError")
    /\ UNCHANGED <<eofVars, root, orchVars, fileVars>>
    /\ UNCHANGED <<rootVars, logVars, pipVars>>

\* the files a finished walk hands to its consumer
FilesProduced ==
    CASE tool \in StackTools -> out
      [] tool = RGLOB -> {q \in out : is_file(tree, q)}
      [] OTHER -> {q \in out : ~is_dir(tree, q)}

\* a loader run on its own: the ignore files are read and the list is built
LoadOnly ==
    /\ pc = "load_only"
    /\ \E pats \in {LoaderOf(tool, ignoreFiles)} :
          patterns' = pats /\ ignore_spec' = from_lines(pats)
    /\ pc' = "loaded"
    /\ UNCHANGED <<tool, ignoreFiles, tree, stack, out, total>>
    /\ UNCHANGED <<eofVars, procVars, orchVars, fileVars>>
    /\ UNCHANGED <<rootVars, logVars, pipVars>>

---------------------------------------------------------------------------
(* The orchestrators run_all.py, maintain.py and update_all.py: a cache of *)
(* script paths is loaded, every script of a fixed list is located (from   *)
(* the cache or by a search under code_maintenance), the cache is saved    *)
(* and the scripts are run one after the other.                            *)

Orchestrators == {RUN_ALL, MAINTAIN, UPDATE_ALL}

S_fix_eof     == <<"f","i","x","_","e","o","f",".","p","y">>
S_fix_indent  == <<"f","i","x","_","i","n","d","e","n","t","a","t","i","o","n",".","p","y">>
S_lint        == <<"l","i","n","t","_","a","n","d","_","f","o","r","m","a","t",".","p","y">>
S_analytics   == <<"p","r","o","j","e","c","t","_","a","n","a","l","y","t","i","c","s",".","p","y">>
S_structure   == <<"p","r","o","j","e","c","t","_","s","t","r","u","c","t","u","r","e",".","p","y">>
S_run_all     == <<"r","u","n","_","a","l","l",".","p","y">>
S_comment_git == <<"c","o","m","m","e","n","t","_","g","i","t",".","p","y">>
S_update_all  == <<"u","p","d","a","t","e","_","a","l","l",".","p","y">>
S_update_global == <<"u","p","d","a","t","e","_","g","l","o","b","a","l",".","p","y">>
S_update_venv == <<"u","p","d","a","t","e","_","v","e","n","v",".","p","y">>
S_update_node == <<"u","p","d","a","t","e","_","n","o","d","e",".","p","y">>
D_code_maintenance == <<"c","o","d","e","_","m","a","i","n","t","e","n","a","n","c","e">>
D_code_utils  == <<"c","o","d","e","_","u","t","i","l","s">>
D_organization == <<"o","r","g","a","n","i","z","a","t","i","o","n">>
D_update_env  == <<"u","p","d","a","t","e","_","e","n","v">>
COMMENT       == <<"c","o","m","m","e","n","t">>

SCRIPT_ORDER == <<S_fix_eof, S_fix_indent, S_lint, S_analytics, S_structure>>
\* the keys maintain.py locates, in the order of its locate_or_cache calls
MAINTAIN_KEYS == <<S_run_all, S_update_all, S_fix_eof>>
\* the order in which maintain.py runs them
MAINTAIN_STEPS == <<S_update_all, S_run_all, S_fix_eof>>
UPDATE_SCRIPTS == <<S_update_global, S_update_venv, S_update_node>>

NamesOf(tl) ==
    CASE tl = RUN_ALL -> SCRIPT_ORDER
      [] tl = MAINTAIN -> MAINTAIN_KEYS
      [] tl = UPDATE_ALL -> UPDATE_SCRIPTS

\* the folder maintain.py searches for each of its keys
FolderOf(name) == IF name = S_update_all THEN D_update_env ELSE D_code_utils

\* JSON values: null, a list, a number, a string (here always a path) and
\* an object, which json.loads turns into a dict
J_null == [t |-> "null"]
J_list == [t |-> "list"]
J_num(n) == [t |-> "num", v |-> n]
J_str(x) == [t |-> "str", v |-> x]
J_map(f) == [t |-> "map", m |-> f]
EmptyMap == [n \in {} |-> n]
NotSaved == [t |-> "none"]

\* a path string: under the project root, absolute and elsewhere, or
\* relative to the working directory
InRoot(p)  == [base |-> "root", p |-> p]
Outside(p) == [base |-> "outside", p |-> p]
Relative(p) == [base |-> "relative", p |-> p]

\* the one file there is outside the project root
OUTSIDE_FILE == <<S_fix_eof>>

\* Path(cached).is_file()
path_is_file(v) ==
    CASE v.base = "root" -> Reg(v.p) \in tree
      [] v.base = "outside" -> v.p = OUTSIDE_FILE
      [] OTHER -> FALSE

\* bool(value) of a JSON value
Truthy(j) ==
    CASE j.t = "str" -> j.v.p # <<>>
      [] j.t = "num" -> j.v # 0
      [] j.t = "map" -> DOMAIN j.m # {}
      [] OTHER -> FALSE

\* str(v) of update_all.load_cache: a string stays, anything else becomes
\* the name of a file that is not there
str(j) == IF j.t = "str" THEN j ELSE J_str(Relative(<<<<"5">>>>))

\* load_cache: no cache file, or one json.loads fails on, gives {}; run_all
\* and maintain return whatever json.loads gives, update_all only a dict
load_cache(tl, f) ==
    IF f.state # "json" THEN J_map(EmptyMap)
    ELSE IF tl = UPDATE_ALL
         THEN IF f.value.t = "map"
              THEN J_map([k \in DOMAIN f.value.m |-> str(f.value.m[k])])
              ELSE J_map(EmptyMap)
         ELSE f.value

\* "comment" in candidate.name.lower()
HasComment(name) ==
    \E i \in 1..Len(name) :
        /\ i + Len(COMMENT) - 1 <= Len(name)
        /\ SubSeq(lower(name), i, i + Len(COMMENT) - 1) = COMMENT

Under(p, d) == Len(p) > Len(d) /\ SubSeq(p, 1, Len(d)) = d
RelativeTo(p, d) == SubSeq(p, Len(d) + 1, Len(p))

code_dir == <<D_code_maintenance>>
update_env_dir == <<D_code_maintenance, D_update_env>>

\* run_all.find_script: the files named `name` under code_dir that are not
\* skipped; the first one rglob yields is returned
find_script(name) ==
    {p \in rglob(tree) :
        /\ Under(p, code_dir) /\ NameOf(p) = name
        /\ ~HasComment(NameOf(p))
        /\ ~match_file(ignore_spec, p)
        /\ Reg(p) \in tree}

\* maintain.find_target_script: the files named `name` under a directory
\* named `folder`; paths are matched relative to code_maintenance
find_target_script(folder, name) ==
    {p \in rglob(tree) :
        /\ NameOf(p) = name /\ Reg(p) \in tree
        /\ ~match_file(ignore_spec, RelativeTo(p, code_dir))
        /\ \E d \in rglob(tree) :
              /\ Under(d, code_dir) /\ NameOf(d) = folder /\ Dir(d) \in tree
              /\ ~match_file(ignore_spec, RelativeTo(d, code_dir))
              /\ Under(p, d)}

\* update_all.scan_for_script: paths are matched relative to update_env
scan_for_script(name) ==
    {p \in rglob(tree) :
        /\ Under(p, update_env_dir) /\ NameOf(p) = name
        /\ ~match_file(ignore_spec, RelativeTo(p, update_env_dir))
        /\ p[Len(p) - 1] \notin DEFAULT_FOLDER_IGNORES
        /\ Reg(p) \in tree}

Candidates(tl, name) ==
    CASE tl = RUN_ALL -> find_script(name)
      [] tl = MAINTAIN -> find_target_script(FolderOf(name), name)
      [] tl = UPDATE_ALL -> scan_for_script(name)

\* a cached path that is kept without a search, with every test but the
\* one on the ignore set
Reusable_without_ignore_test(tl, v) == path_is_file(v) /\ v.base = "root"

\* the cached path is kept without a search: run_all and update_all want an
\* existing file under the project root that is not ignored, maintain any
\* existing file
Reusable(tl, v) ==
    IF tl = MAINTAIN THEN path_is_file(v)
    ELSE /\ path_is_file(v)
         /\ v.base = "root"
         /\ ~match_file(ignore_spec, v.p)

\* the directories the script needs before it reads the cache
DirsFound(tl, spec) ==
    /\ Dir(code_dir) \in tree
    /\ tl = UPDATE_ALL =>
          /\ ~match_file(spec, code_dir)
          /\ Dir(update_env_dir) \in tree
          /\ ~match_file(spec, RelativeTo(update_env_dir, code_dir))

Exit(code) == pc' = "exited" /\ exit_code' = code

\* the ignore set is built, code_maintenance is found and the cache is read
OrchLoad ==
    /\ pc = "orch_load"
    /\ \E pats \in {LoaderOf(tool, ignoreFiles)} :
          /\ patterns' = pats /\ ignore_spec' = from_lines(pats)
          /\ IF DirsFound(tool, from_lines(pats))
             THEN /\ cache_data' = load_cache(tool, cacheFile)
                  /\ pc' = "locate" /\ UNCHANGED exit_code
             ELSE /\ Exit(1) /\ UNCHANGED cache_data
    /\ UNCHANGED <<tool, ignoreFiles, tree, stack, out, total, root, exc>>
    /\ UNCHANGED <<cacheFile, updated_cache, script_paths, scanned,
                   saved_cache, started>>
    /\ UNCHANGED <<eofVars, fileVars>>
    /\ UNCHANGED <<rootVars, logVars, pipVars>>

Put(f, k, v) == [x \in DOMAIN f \cup {k} |-> IF x = k THEN v ELSE f[x]]

\* one turn of the locating loop: the cached path if it can be kept, the
\* result of a search otherwise
Locate ==
    /\ pc = "locate" /\ scanned < Len(NamesOf(tool))
    /\ \E name \in {NamesOf(tool)[scanned + 1]} :
         IF cache_data.t # "map"
         THEN /\ Exit(1) /\ exc' = "AttributeError"
              /\ UNCHANGED <<script_paths, updated_cache, scanned>>
         ELSE \E cached \in {IF name \in DOMAIN cache_data.m
                             THEN cache_data.m[name] ELSE J_null} :
           IF Truthy(cached) /\ cached.t # "str"
           THEN /\ Exit(1) /\ exc' = "TypeError"
                /\ UNCHANGED <<script_paths, updated_cache, scanned>>
           ELSE IF Truthy(cached) /\ Reusable(tool, cached.v)
           THEN /\ script_paths' = Append(script_paths,
                        [name |-> name, path |-> cached.v, from |-> "cache"])
                /\ updated_cache' = Put(updated_cache, name, cached.v)
                /\ scanned' = scanned + 1
                /\ UNCHANGED <<pc, exit_code, exc>>
           ELSE IF Candidates(tool, name) = {}
           THEN /\ UNCHANGED <<script_paths, updated_cache, exc>>
                /\ IF tool = UPDATE_ALL
                   THEN Exit(1) /\ UNCHANGED scanned
                   ELSE scanned' = scanned + 1 /\ UNCHANGED <<pc, exit_code>>
           ELSE \E found \in Candidates(tool, name) :
                /\ script_paths' = Append(script_paths,
                        [name |-> name, path |-> InRoot(found), from |-> "search"])
                /\ updated_cache' = Put(updated_cache, name, InRoot(found))
                /\ scanned' = scanned + 1
                /\ UNCHANGED <<pc, exit_code, exc>>
    /\ UNCHANGED <<tool, ignoreFiles, tree, patterns, ignore_spec, stack, out,
                   total, root>>
    /\ UNCHANGED <<cacheFile, cache_data, saved_cache, started>>
    /\ UNCHANGED <<eofVars, fileVars>>
    /\ UNCHANGED <<rootVars, logVars, pipVars>>

\* json.dumps(updated_cache) as the cache file holds it
Dumped(f) == J_map([k \in DOMAIN f |-> J_str(f[k])])

\* the scripts in the order they are run
ExecList ==
    IF tool = MAINTAIN
    THEN [i \in 1..Len(MAINTAIN_STEPS) |->
             CHOOSE e \in {script_paths[k] : k \in 1..Len(script_paths)} :
                 e.name = MAINTAIN_STEPS[i]]
    ELSE script_paths

\* the loop is over: the cache is saved (a failed write is only a warning,
\* a failed mkdir is not caught; update_all saves only a changed mapping),
\* then maintain wants its three scripts and run_all at least one
SaveCache ==
    /\ pc = "locate" /\ scanned = Len(NamesOf(tool))
    /\ \E r \in {"written", "write_failed", "mkdir_failed"} :
         IF tool = UPDATE_ALL /\ J_map(updated_cache) = cache_data
         THEN /\ r = "written"
              /\ pc' = "run" /\ UNCHANGED <<saved_cache, exit_code, exc>>
         ELSE IF r = "mkdir_failed"
         THEN Exit(1) /\ exc' = "OSError" /\ UNCHANGED saved_cache
         ELSE /\ saved_cache' = IF r = "written" THEN Dumped(updated_cache)
                                ELSE saved_cache
              /\ exc' = exc
              /\ IF tool = MAINTAIN /\ Len(script_paths) < Len(MAINTAIN_KEYS)
                 THEN Exit(1)
                 ELSE IF tool = RUN_ALL /\ script_paths = <<>>
                 THEN Exit(0)
                 ELSE pc' = "run" /\ UNCHANGED exit_code
    /\ UNCHANGED <<tool, ignoreFiles, tree, patterns, ignore_spec, stack, out,
                   total, root>>
    /\ UNCHANGED <<cacheFile, cache_data, updated_cache, script_paths, scanned,
                   started>>
    /\ UNCHANGED <<eofVars, fileVars>>
    /\ UNCHANGED <<rootVars, logVars, pipVars>>

\* the log files of fix_eof: `at` is "cache" for a file of
\* <project_root>/cache/code_maintenance/code_utils/logs, project_root being
\* the root maintain has found, and "far" for a file of the same folder
\* under another root; `by` is the run that wrote to the file last
FIX_EOF_LOG   == "fix_eof.log"
FIX_EOF_1_LOG == "fix_eof_1.log"
FIX_EOF_2_LOG == "fix_eof_2.log"

LogFile(name, at, by) == [name |-> name, at |-> at, by |-> by]

\* log_path.with_name(f"fix_eof_{suffix}.log")
with_name(sfx) == IF sfx = "1" THEN FIX_EOF_1_LOG ELSE FIX_EOF_2_LOG

\* where LOG_PATH of fix_eof lies: under PROJECT_ROOT, which is
\* PROJECT_ROOT_CACHE or the nearest ancestor with package-lock.json
LogAt == IF log_root = "same" THEN "cache" ELSE "far"

\* logging.FileHandler(LOG_PATH, mode="a"): the file is made or appended to
FileHandler(L, by) ==
    {f \in L : ~(f.name = FIX_EOF_LOG /\ f.at = LogAt)}
        \cup {LogFile(FIX_EOF_LOG, LogAt, by)}

\* cache_root.rglob("fix_eof.log"): the log folder holds one file of a name
rglob_fix_eof_log(L) == {f \in L : f.at = "cache" /\ f.name = FIX_EOF_LOG}

\* rename_fix_eof_log: the first file found is renamed, a file of the new
\* name is replaced
rename_fix_eof_log(L, sfx) ==
    IF rglob_fix_eof_log(L) = {} THEN L
    ELSE LET log_path == CHOOSE f \in rglob_fix_eof_log(L) : TRUE
         IN  {f \in L : f # log_path
                        /\ ~(f.at = "cache" /\ f.name = with_name(sfx))}
                 \cup {LogFile(with_name(sfx), "cache", log_path.by)}

\* the log files after step `i` of maintain has ended with `code`: run_all
\* may have run fix_eof (`wrote`), fix_eof.py has logged if it has ended
\* with 0, and the rename follows a step that returned 0
LogsAfter(L, i, file, code, wrote) ==
    IF tool # MAINTAIN \/ i = 1 THEN L
    ELSE IF i = 2
    THEN LET after == IF wrote THEN FileHandler(L, "run_all") ELSE L
         IN  IF code = 0 THEN rename_fix_eof_log(after, "1") ELSE after
    ELSE LET after == IF wrote \/ (file = S_fix_eof /\ code = 0)
                      THEN FileHandler(L, "final") ELSE L
         IN  IF code = 0 THEN rename_fix_eof_log(after, "2") ELSE after

\* the exit statuses a child may end with
ChildCodes == {0, 1, 2}

\* the next script is run to its end: a non-zero status ends the
\* orchestrator with status 1, the last status 0 lets it end with 0
RunStep ==
    /\ pc = "run" /\ Len(started) < Len(ExecList)
    /\ \E code \in ChildCodes, wrote \in BOOLEAN :
         /\ started' = Append(started,
                [name |-> ExecList[Len(started) + 1].name,
                 path |-> ExecList[Len(started) + 1].path,
                 code |-> code])
         /\ logs' = LogsAfter(logs, Len(started) + 1,
                              NameOf(ExecList[Len(started) + 1].path.p),
                              code, wrote)
         /\ IF code # 0 THEN Exit(1)
            ELSE IF Len(started') = Len(ExecList) THEN Exit(0)
            ELSE UNCHANGED <<pc, exit_code>>
    /\ UNCHANGED <<tool, ignoreFiles, tree, patterns, ignore_spec, stack, out,
                   total, root, exc>>
    /\ UNCHANGED <<cacheFile, cache_data, updated_cache, script_paths, scanned,
                   saved_cache>>
    /\ UNCHANGED <<eofVars, fileVars>>
    /\ UNCHANGED <<rootVars, log_root, pipVars>>

---------------------------------------------------------------------------
(* fix_eof.ensure_single_final_newline.  A file is `mode.pre` bytes that   *)
(* are neither CR nor LF, followed by the bytes of `disk`.                 *)

CR == "CR"
LF == "LF"

MAX_FILE_SIZE == 5 * 1024 * 1024

\* text-mode read (newline=None): "\r\n" and a lone "\r" arrive as "\n"
RECURSIVE ReadText(_)
ReadText(b) ==
    IF b = <<>> THEN <<>>
    ELSE IF Head(b) = CR
         THEN IF Len(b) >= 2 /\ b[2] = LF
              THEN <<LF>> \o ReadText(SubSeq(b, 3, Len(b)))
              ELSE <<LF>> \o ReadText(Tail(b))
         ELSE <<Head(b)>> \o ReadText(Tail(b))

\* text-mode write (newline=None): "\n" leaves as os.linesep, "\n" on POSIX
WriteText(s) == s

\* RE_TRAILING_NEWLINES.sub("", content): the final run of CR and LF goes
RECURSIVE StripTrailing(_)
StripTrailing(s) ==
    IF s # <<>> /\ s[Len(s)] \in {CR, LF}
    THEN StripTrailing(SubSeq(s, 1, Len(s) - 1))
    ELSE s

\* a newline is appended and the trailing run is left where it is
NewContent_no_strip(content) == content \o <<LF>>

\* stripped + "\n"
NewContent(content) == StripTrailing(content) \o <<LF>>

FileSize == mode.pre + Len(disk)

\* the value ensure_single_final_newline returns for the file as it is
Fixes ==
    /\ FileSize <= MAX_FILE_SIZE
    /\ mode.readable
    /\ NewContent(ReadText(disk)) # ReadText(disk)
    /\ mode.writable

\* one call of ensure_single_final_newline(file_path)
Apply ==
    /\ Len(runs) < MaxApply
    /\ pc = "eof"
    /\ disk' = IF Fixes THEN WriteText(NewContent(ReadText(disk))) ELSE disk
    /\ runs' = Append(runs, Fixes)
    /\ writes' = Append(writes, IF Fixes THEN 1 ELSE 0)
    /\ hist' = Append(hist, disk')
    /\ UNCHANGED mode
    /\ UNCHANGED <<walkVars, procVars, orchVars, fileVars>>
    /\ UNCHANGED <<rootVars, logVars, pipVars>>

---------------------------------------------------------------------------
(* The tools that go through a list of files or run external commands:     *)
(* the second phase of fix_eof and fix_indentation, analyze_tree of        *)
(* organization/project_analytics, the pipelines of lint_and_format,       *)
(* generate_docs and project_struct.  A file is its bytes, whether it can  *)
(* be read and written, and the pipeline its suffix selects.               *)

GEN_DOCS == "generate_docs"    \* code_utils/generate_docs.py
STRUCT   == "project_struct"   \* code_utils/project_struct.py

FileTools == {FIX_EOF, INDENT, COLLECT, LINT}
CommandTools == {GEN_DOCS, STRUCT}

SP  == " "
TAB == "\t"
BAD == "0xff"                  \* a byte that is not valid UTF-8

TAB_WIDTH == 4

Undecodable(b) == \E i \in 1..Len(b) : b[i] = BAD

\* decode(errors="ignore"): the undecodable bytes are dropped
DecodeIgnore(b) == SelectSeq(b, LAMBDA c : c # BAD)

\* the value and the effect of ensure_single_final_newline on one file
ensure_single_final_newline(f) ==
    IF Len(f.bytes) > MAX_FILE_SIZE \/ ~f.readable \/ Undecodable(f.bytes)
    THEN [fixed |-> FALSE, bytes |-> f.bytes, failed |-> ~f.readable \/ Undecodable(f.bytes)]
    ELSE IF NewContent(ReadText(f.bytes)) = ReadText(f.bytes)
    THEN [fixed |-> FALSE, bytes |-> f.bytes, failed |-> FALSE]
    ELSE IF f.writable
    THEN [fixed |-> TRUE, bytes |-> WriteText(NewContent(ReadText(f.bytes))),
          failed |-> FALSE]
    ELSE [fixed |-> FALSE, bytes |-> f.bytes, failed |-> TRUE]

\* the end of the leading run of tabs and spaces that starts at i
RECURSIVE IndentEnd(_, _)
IndentEnd(s, i) ==
    IF i <= Len(s) /\ s[i] \in {SP, TAB} THEN IndentEnd(s, i + 1) ELSE i

\* the last index of the line that holds index i (its newline included)
RECURSIVE LineEnd(_, _)
LineEnd(s, i) ==
    IF i >= Len(s) THEN Len(s)
    ELSE IF s[i] = LF THEN i ELSE LineEnd(s, i + 1)

RECURSIVE IndentWidth(_, _, _)
IndentWidth(s, i, e) ==
    IF i >= e THEN 0
    ELSE (IF s[i] = TAB THEN TAB_WIDTH ELSE 1) + IndentWidth(s, i + 1, e)

Tabs(n) == [k \in 1..n |-> TAB]

\* every line with its indentation as ceil(width / TAB_WIDTH) tabs
RECURSIVE Reindent(_, _)
Reindent(s, i) ==
    IF i > Len(s) THEN <<>>
    ELSE LET e == IndentEnd(s, i)
             w == IndentWidth(s, i, e)
             last == LineEnd(s, e)
         IN  Tabs((w + TAB_WIDTH - 1) \div TAB_WIDTH)
                 \o SubSeq(s, e, last) \o Reindent(s, last + 1)

\* the value and the effect of fix_file_indentation on one file
fix_file_indentation(f) ==
    IF ~f.readable
    THEN [fixed |-> FALSE, bytes |-> f.bytes, failed |-> TRUE, logged |-> "ERROR"]
    ELSE LET text == ReadText(DecodeIgnore(f.bytes))
             new == Reindent(text, 1)
         IN  IF new = text
             THEN [fixed |-> FALSE, bytes |-> f.bytes, failed |-> FALSE,
                   logged |-> ""]
             ELSE IF f.writable
             THEN [fixed |-> TRUE, bytes |-> WriteText(new), failed |-> FALSE,
                   logged |-> ""]
             ELSE [fixed |-> FALSE, bytes |-> f.bytes, failed |-> TRUE,
                   logged |-> "ERROR"]

\* the line count of analyze_tree for one file
count_lines(f) ==
    IF ~f.readable
    THEN [fixed |-> FALSE, bytes |-> f.bytes, failed |-> TRUE,
          logged |-> "WARNING"]
    ELSE [fixed |-> FALSE, bytes |-> f.bytes, failed |-> FALSE, logged |-> ""]

PY_TOOLS == <<"autoflake", "autopep8", "black", "flake8">>
NPX == "npx"
TREE_CMD == "tree"
QUICKSTART == "sphinx-quickstart"
MAKE_HTML == "make html"

\* the commands whose failure run() turns into sys.exit(1)
Aborting == {"black", NPX}

\* lint_and_format: a file takes the Python or the JS/TS pipeline
PipelineOf(f) == IF f.ext = "py" THEN PY_TOOLS ELSE <<NPX>>

\* the external commands ensure_tool asks for
Required ==
    {PY_TOOLS[k] : k \in 1..Len(PY_TOOLS)}
        \cup (IF \E i \in 1..Len(code_files) : code_files[i].ext = "js"
              THEN {NPX} ELSE {})

\* the exit statuses an external command may end with
CommandCodes == {0, 1, 2, 127}

\* what a formatter may leave in a file it is run on
Formatted(f) == IF f.writable THEN {f.bytes, <<"a", LF>>} ELSE {f.bytes}

Record(level, i) == [level |-> level, file |-> i]
Ran(cmd, i, code) == [cmd |-> cmd, file |-> i, code |-> code]

\* the statuses of one pipeline: the commands after an aborting failure
\* are not run
RECURSIVE Runs(_, _, _)
Runs(cmds, codes, i) ==
    IF cmds = <<>> THEN <<>>
    ELSE <<Ran(Head(cmds), i, Head(codes))>>
           \o (IF Head(codes) # 0 /\ Head(cmds) \in Aborting
               THEN <<>> ELSE Runs(Tail(cmds), Tail(codes), i))

Aborted(rs) == rs # <<>> /\ rs[Len(rs)].code # 0 /\ rs[Len(rs)].cmd \in Aborting

\* main() up to the loop over the files: the project root is looked for;
\* lint_and_format lists the files and returns under --dry-run, and asks
\* for its external commands otherwise
ToolStart ==
    /\ pc = "tool" /\ tool \in FileTools
    /\ IF ~env.root_found
       THEN /\ fatal' = fatal \cup {"root_not_found"}
            /\ log' = Append(log, Record("ERROR", 0))
            /\ Exit(1)
       ELSE IF tool = LINT /\ dry_run
       THEN /\ log' = log \o [i \in 1..Len(code_files) |-> Record("INFO", i)]
            /\ Exit(0)
            /\ UNCHANGED fatal
       ELSE IF tool = LINT /\ Required \cap env.missing # {}
       THEN /\ fatal' = fatal \cup {"tool_missing"}
            /\ log' = Append(log, Record("ERROR", 0))
            /\ Exit(1)
       ELSE /\ pc' = "files"
            /\ UNCHANGED <<fatal, log, exit_code>>
    /\ UNCHANGED <<code_files, orig, done, invoked, dry_run, env>>
    /\ UNCHANGED <<tool, ignoreFiles, tree, patterns, ignore_spec, stack, out,
                   total, root, exc>>
    /\ UNCHANGED <<eofVars, orchVars>>
    /\ UNCHANGED <<rootVars, logVars, pipVars>>

\* the loop of fix_eof without its test of args.dry_run
Outcome_ignoring_dry_run(f) ==
    IF tool = FIX_EOF
    THEN [fixed |-> ensure_single_final_newline(f).fixed,
          bytes |-> ensure_single_final_newline(f).bytes,
          failed |-> ensure_single_final_newline(f).failed,
          logged |-> ""]
    ELSE IF tool = INDENT THEN fix_file_indentation(f)
    ELSE count_lines(f)

\* what the loop of the tool does to its next file
Outcome(f) ==
    IF tool = FIX_EOF
    THEN IF dry_run
         THEN [fixed |-> FALSE, bytes |-> f.bytes, failed |-> FALSE, logged |-> ""]
         ELSE [fixed |-> ensure_single_final_newline(f).fixed,
               bytes |-> ensure_single_final_newline(f).bytes,
               failed |-> ensure_single_final_newline(f).failed,
               logged |-> ""]
    ELSE IF tool = INDENT THEN fix_file_indentation(f)
    ELSE count_lines(f)

\* one turn of the loop over the files
ProcessFile ==
    /\ pc = "files" /\ done < Len(code_files)
    /\ done' = done + 1
    /\ IF tool = LINT
       THEN \E codes \in [1..Len(PipelineOf(code_files[done'])) -> {0, 1}],
               b \in Formatted(code_files[done']) :
              \E rs \in {Runs(PipelineOf(code_files[done']), codes, done')} :
                /\ invoked' = invoked \o rs
                /\ code_files' = [code_files EXCEPT ![done'].bytes = b]
                /\ IF Aborted(rs)
                   THEN /\ log' = Append(log, Record("ERROR", done'))
                        /\ fatal' = fatal \cup {"command_failed"}
                        /\ Exit(1)
                   ELSE UNCHANGED <<log, fatal, pc, exit_code>>
       ELSE \E r \in {Outcome(code_files[done'])} :
                /\ code_files' = [code_files EXCEPT ![done'].bytes = r.bytes]
                /\ log' = IF r.logged = "" THEN log
                          ELSE Append(log, Record(r.logged, done'))
                /\ UNCHANGED <<invoked, fatal, pc, exit_code>>
    /\ UNCHANGED <<orig, dry_run, env>>
    /\ UNCHANGED <<tool, ignoreFiles, tree, patterns, ignore_spec, stack, out,
                   total, root, exc>>
    /\ UNCHANGED <<eofVars, orchVars>>
    /\ UNCHANGED <<rootVars, logVars, pipVars>>

\* the loop is over: the summary is logged and main() returns
ToolEnd ==
    /\ pc = "files" /\ done = Len(code_files)
    /\ Exit(0)
    /\ UNCHANGED <<tool, ignoreFiles, tree, patterns, ignore_spec, stack, out,
                   total, root, exc>>
    /\ UNCHANGED <<eofVars, orchVars, fileVars>>
    /\ UNCHANGED <<rootVars, logVars, pipVars>>

\* generate_docs.main(): run() ends the process with the status of the
\* command that failed
GenerateDocs ==
    /\ pc = "tool" /\ tool = GEN_DOCS
    /\ \E c1, c2 \in CommandCodes, conf \in BOOLEAN :
         LET init == env.docs = "absent"
             has_conf == IF init THEN conf ELSE env.docs = "ready"
             first == IF init THEN <<Ran(QUICKSTART, 0, c1)>> ELSE <<>>
         IN  IF init /\ c1 # 0
             THEN /\ invoked' = invoked \o first
                  /\ fatal' = fatal \cup {"command_failed"}
                  /\ Exit(c1)
                  /\ UNCHANGED env
             ELSE /\ env' = [env EXCEPT !.docs = IF has_conf THEN "ready"
                                                 ELSE "no_conf"]
                  /\ IF has_conf
                     THEN /\ invoked' = invoked \o first
                                          \o <<Ran(MAKE_HTML, 0, c2)>>
                          /\ fatal' = IF c2 # 0
                                      THEN fatal \cup {"command_failed"}
                                      ELSE fatal
                          /\ Exit(c2)
                     ELSE /\ invoked' = invoked \o first
                          /\ Exit(0)
                          /\ UNCHANGED fatal
    /\ UNCHANGED <<code_files, orig, done, log, dry_run>>
    /\ UNCHANGED <<tool, ignoreFiles, tree, patterns, ignore_spec, stack, out,
                   total, root, exc>>
    /\ UNCHANGED <<eofVars, orchVars>>
    /\ UNCHANGED <<rootVars, logVars, pipVars>>

\* project_struct.main(): a root that is not found, a missing `tree` and a
\* failing `tree` are printed and main() returns; a report that cannot be
\* written is an exception nothing catches
ProjectStruct ==
    /\ pc = "tool" /\ tool = STRUCT
    /\ \E c1, c2 \in CommandCodes :
         IF ~env.root_found
         THEN /\ fatal' = fatal \cup {"root_not_found"}
              /\ Exit(0)
              /\ UNCHANGED <<invoked, exc>>
         ELSE IF TREE_CMD \in env.missing
         THEN /\ fatal' = fatal \cup {"tool_missing"}
              /\ Exit(0)
              /\ UNCHANGED <<invoked, exc>>
         ELSE IF c1 # 0
         THEN /\ invoked' = Append(invoked, Ran(TREE_CMD, 0, c1))
              /\ Exit(0)
              /\ UNCHANGED <<fatal, exc>>
         ELSE IF ~env.out_writable
         THEN /\ invoked' = Append(invoked, Ran(TREE_CMD, 0, c1))
              /\ fatal' = fatal \cup {"write_failed"}
              /\ exc' = "PermissionError"
              /\ Exit(1)
         ELSE /\ invoked' = invoked \o <<Ran(TREE_CMD, 0, c1), Ran(TREE_CMD, 0, c2)>>
              /\ Exit(0)
              /\ UNCHANGED <<fatal, exc>>
    /\ UNCHANGED <<code_files, orig, done, log, dry_run, env>>
    /\ UNCHANGED <<tool, ignoreFiles, tree, patterns, ignore_spec, stack, out,
                   total, root>>
    /\ UNCHANGED <<eofVars, orchVars>>
    /\ UNCHANGED <<rootVars, logVars, pipVars>>

---------------------------------------------------------------------------
(* Root discovery.  The directories from the filesystem root (level 0)     *)
(* down to the start directory form a chain; `markers[k + 1]` tells what   *)
(* the directory of level k holds under the marker's name: nothing, a      *)
(* regular file or a directory.                                            *)

\* a directory is a level of the chain, the value of --root, the value of
\* PROJECT_ROOT_CACHE, or none
NoDir == [at |-> "none"]
Level(k) == [at |-> "level", n |-> k]
ArgDir == [at |-> "arg"]
EnvDir == [at |-> "env"]

MarkerAt(mk, k) == mk[k + 1]

exists(m) == m # "none"
path_is_regular(m) == m = "file"

\* current == current.parent holds for the filesystem root alone
IsFsRoot(k) == k = 0

\* fix_eof.find_project_root: `while current != current.parent`, exists()
RECURSIVE find_project_root_fix_eof(_, _)
find_project_root_fix_eof(mk, current) ==
    IF IsFsRoot(current) THEN NoDir
    ELSE IF exists(MarkerAt(mk, current)) THEN Level(current)
    ELSE find_project_root_fix_eof(mk, current - 1)

\* lint_and_format.find_project_root: the same loop with is_file()
RECURSIVE find_project_root_lint(_, _)
find_project_root_lint(mk, current) ==
    IF IsFsRoot(current) THEN NoDir
    ELSE IF path_is_regular(MarkerAt(mk, current)) THEN Level(current)
    ELSE find_project_root_lint(mk, current - 1)

\* maintain.find_project_root: `while True`, is_file(), then the root test
RECURSIVE find_project_root_maintain(_, _)
find_project_root_maintain(mk, current) ==
    IF path_is_regular(MarkerAt(mk, current)) THEN Level(current)
    ELSE IF IsFsRoot(current) THEN NoDir
    ELSE find_project_root_maintain(mk, current - 1)

Discoverers == {FIX_EOF, LINT, MAINTAIN}

find_project_root(tl, mk, current) ==
    IF tl = FIX_EOF THEN find_project_root_fix_eof(mk, current)
    ELSE IF tl = LINT THEN find_project_root_lint(mk, current)
    ELSE find_project_root_maintain(mk, current)

\* fix_eof, module level: PROJECT_ROOT comes from PROJECT_ROOT_CACHE when it
\* names an existing path, else from the search, which ends the process
\* when it finds nothing; this runs before the arguments are parsed
ModuleLoad ==
    /\ pc = "import" /\ tool = FIX_EOF
    /\ IF env_root = "exists"
       THEN /\ PROJECT_ROOT' = EnvDir
            /\ pc' = "main"
            /\ UNCHANGED <<env_root, exit_code>>
       ELSE \E r \in {find_project_root(tool, markers, start_path)} :
              IF r = NoDir
              THEN /\ Exit(1)
                   /\ UNCHANGED <<PROJECT_ROOT, env_root>>
              ELSE /\ PROJECT_ROOT' = r
                   /\ env_root' = "exists"
                   /\ pc' = "main"
                   /\ UNCHANGED exit_code
    /\ UNCHANGED <<markers, start_path, args_root, project_root>>
    /\ UNCHANGED <<tool, ignoreFiles, tree, patterns, ignore_spec, stack, out,
                   total, root, exc>>
    /\ UNCHANGED <<eofVars, orchVars, fileVars, logVars, pipVars>>

\* fix_eof.main: --root is taken when given, else PROJECT_ROOT
MainRoot ==
    /\ pc = "main" /\ tool = FIX_EOF
    /\ project_root' = (IF args_root # NoDir THEN args_root ELSE PROJECT_ROOT)
    /\ pc' = "rooted"
    /\ UNCHANGED <<markers, start_path, env_root, args_root, PROJECT_ROOT>>
    /\ UNCHANGED <<tool, ignoreFiles, tree, patterns, ignore_spec, stack, out,
                   total, root, exc, exit_code>>
    /\ UNCHANGED <<eofVars, orchVars, fileVars, logVars, pipVars>>

\* lint_and_format and maintain: main() starts with find_project_root and
\* ends with status 1 when it finds nothing
FindRoot ==
    /\ pc = "import" /\ tool \in Discoverers \ {FIX_EOF}
    /\ \E r \in {find_project_root(tool, markers, start_path)} :
         IF r = NoDir
         THEN Exit(1) /\ UNCHANGED project_root
         ELSE /\ project_root' = r
              /\ pc' = "rooted"
              /\ UNCHANGED exit_code
    /\ UNCHANGED <<markers, start_path, env_root, args_root, PROJECT_ROOT>>
    /\ UNCHANGED <<tool, ignoreFiles, tree, patterns, ignore_spec, stack, out,
                   total, root, exc>>
    /\ UNCHANGED <<eofVars, orchVars, fileVars, logVars, pipVars>>

---------------------------------------------------------------------------
(* update_venv.  The environment is the set of requirements `pip check`    *)
(* reports as "has requirement ..., but you have ..." and whether it       *)
(* reports problems in another form ("requires ..., which is not           *)
(* installed").                                                            *)

UPDATE_VENV == "update_venv"   \* update_env/update_venv.py

MAX_PASSES == 3

Reqs == {"a", "b", "c"}

PipStates == [conflicts : SUBSET Reqs, other : BOOLEAN]

\* the exit status of `pip check`
pip_check(e) == IF e.conflicts = {} /\ ~e.other THEN 0 ELSE 1

\* the requirements conflict_pattern finds in the output
Parsed(e) == e.conflicts

\* steps 1 to 3 of main(): pip is verified and upgraded, the outdated
\* packages are listed and upgraded; a failing command of the first three
\* ends the run
VenvPrepare ==
    /\ pc = "venv" /\ tool = UPDATE_VENV
    /\ \E ok \in BOOLEAN, after \in PipStates :
         IF ok
         THEN pip' = after /\ pc' = "resolve" /\ UNCHANGED exit_code
         ELSE Exit(1) /\ UNCHANGED pip
    /\ UNCHANGED <<attempt, resolved>>
    /\ UNCHANGED <<tool, ignoreFiles, tree, patterns, ignore_spec, stack, out,
                   total, root, exc>>
    /\ UNCHANGED <<eofVars, orchVars, fileVars, rootVars, logVars>>

\* one turn of the loop of resolve_conflicts: `pip check`, then an upgrade
\* of every requirement found, which leaves the environment in any state
ResolvePass ==
    /\ pc = "resolve" /\ tool = UPDATE_VENV
    /\ resolved = "running" /\ attempt < MAX_PASSES
    /\ attempt' = attempt + 1
    /\ IF pip_check(pip) = 0
       THEN resolved' = "True" /\ UNCHANGED pip
       ELSE IF Parsed(pip) = {}
       THEN resolved' = "False" /\ UNCHANGED pip
       ELSE \E after \in PipStates :
              /\ pip' = after
              /\ resolved' = IF attempt' = MAX_PASSES THEN "False" ELSE "running"
    /\ UNCHANGED <<pc, exit_code>>
    /\ UNCHANGED <<tool, ignoreFiles, tree, patterns, ignore_spec, stack, out,
                   total, root, exc>>
    /\ UNCHANGED <<eofVars, orchVars, fileVars, rootVars, logVars>>

\* main() after resolve_conflicts: exit 1 when it returned False, else the
\* final `pip check` decides
VenvFinish ==
    /\ pc = "resolve" /\ tool = UPDATE_VENV
    /\ resolved # "running"
    /\ IF resolved = "False" THEN Exit(1)
       ELSE IF pip_check(pip) # 0 THEN Exit(1)
       ELSE Exit(0)
    /\ UNCHANGED <<pip, attempt, resolved>>
    /\ UNCHANGED <<tool, ignoreFiles, tree, patterns, ignore_spec, stack, out,
                   total, root, exc>>
    /\ UNCHANGED <<eofVars, orchVars, fileVars, rootVars, logVars>>

---------------------------------------------------------------------------
(* Inputs.                                                                 *)

SeqsUpTo(S, n) == UNION {[1..k -> S] : k \in 0..n}

N_d   == <<"d">>
N_kpy == <<"k",".","p","y">>
N_apy == <<"a",".","p","y">>
N_UPY == <<"U",".","P","Y">>
N_cpy == <<"c",".","p","y">>
N_blog == <<"b",".","l","o","g">>
N_s   == <<"s">>
N_x   == <<"x">>
N_gone == <<"g","o","n","e">>
N_long == <<"l","o","n","g","_","n","a","m","e">>
N_xjs == <<"x",".","j","s">>
N_alog == <<"a",".","l","o","g">>
N_btxt == <<"b",".","t","x","t">>

\* a directory with a file, and two files beside it
TreePlain ==
    {Dir(<<N_d>>), Reg(<<N_d, N_kpy>>), Reg(<<N_apy>>), Reg(<<N_blog>>)}
\* d/s -> d: a symbolic-link cycle
TreeCycle ==
    {Dir(<<N_d>>), Reg(<<N_d, N_kpy>>), Link(<<N_d, N_s>>, <<N_d>>)}
\* s -> the root itself: a cycle through the root
TreeSelf ==
    {Reg(<<N_apy>>), Link(<<N_s>>, <<>>)}
\* d/long_name -> d: the same cycle through a link with a long name
TreeLong ==
    {Dir(<<N_d>>), Reg(<<N_d, N_kpy>>), Link(<<N_d, N_long>>, <<N_d>>)}
\* x -> gone: a broken link
TreeBroken ==
    {Reg(<<N_UPY>>), Link(<<N_x>>, <<N_gone>>)}
\* the repository metadata directory
TreeGit ==
    {Dir(<<GIT>>), Reg(<<GIT, N_cpy>>), Reg(<<N_apy>>)}
\* node_modules/x.js, a.log, b.txt
TreeModules ==
    {Dir(<<NODE_MODULES>>), Reg(<<NODE_MODULES, N_xjs>>), Reg(<<N_alog>>),
     Reg(<<N_btxt>>)}

Trees == {TreePlain, TreeCycle, TreeSelf, TreeLong, TreeBroken, TreeGit,
          TreeModules}
CycleTrees == {TreeCycle, TreeSelf, TreeLong}

L_dir     == <<"d","/">>
L_keep    == <<"!","d","/","k",".","p","y">>
L_py      == <<"*",".","p","y">>
L_comment_d == <<"#","d">>
L_d       == <<"d">>

WalkLines == {L_dir, L_d, L_keep, L_py, L_comment_d}

L_comment == <<"#"," ","c","o","m","m","e","n","t">>
L_modules == <<"n","o","d","e","_","m","o","d","u","l","e","s","/">>
L_log     == <<"*",".","l","o","g">>

\* the ignore file `# comment`, `node_modules/`, `*.log`
ModulesFile == File(<<L_comment, L_modules, L_log>>)

L_escaped == <<"a","\\","#","b">>
L_inline  == <<"a"," ","#","c">>
L_padded  == <<" ","d","/"," ">>
L_eslint  == <<"e","/">>

LoadLines == {L_dir, L_comment, L_escaped, L_inline, L_padded, L_py}

\* .gitignore, .eslintignore, .prettierignore: only fix_eof reads the last two
IgnoreChoices(tl, gitignores) ==
    {<<g, e, NoFile>> :
        g \in gitignores,
        e \in IF tl = FIX_EOF THEN {NoFile, File(<<L_eslint>>)} ELSE {NoFile}}

Bytes == {"a", CR, LF}

EofIdle ==
    /\ disk = <<>> /\ hist = <<>> /\ runs = <<>> /\ writes = <<>>
    /\ mode = [pre |-> 0, readable |-> TRUE, writable |-> TRUE]

\* the root path: a directory, no entry at all, or a regular file
Roots == {"dir", "missing", "file"}

ProcIdle == root = "dir" /\ exc = "" /\ exit_code = Running

OrchIdle ==
    /\ cacheFile = [state |-> "absent"] /\ cache_data = J_map(EmptyMap)
    /\ updated_cache = EmptyMap /\ script_paths = <<>> /\ scanned = 0
    /\ saved_cache = NotSaved /\ started = <<>>

\* a root that is found, every external command on PATH, docs/ set up
NoEnv == [root_found |-> TRUE, missing |-> {}, docs |-> "ready",
          out_writable |-> TRUE]

FileIdle ==
    /\ code_files = <<>> /\ orig = <<>> /\ done = 0 /\ log = <<>> /\ invoked = <<>>
    /\ dry_run = FALSE /\ fatal = {} /\ env = NoEnv

RootIdle ==
    /\ markers = <<>> /\ start_path = 0 /\ env_root = "unset" /\ args_root = NoDir
    /\ PROJECT_ROOT = NoDir /\ project_root = NoDir

NoLogs == {}

LogIdle == logs = NoLogs /\ log_root = "same"

PipIdle ==
    /\ pip = [conflicts |-> {}, other |-> FALSE] /\ attempt = 0
    /\ resolved = "running"

WalkIdle ==
    /\ tool = FIX_EOF /\ ignoreFiles = <<NoFile, NoFile, NoFile>> /\ tree = {}
    /\ patterns = <<>> /\ ignore_spec = <<>> /\ stack = <<>> /\ out = {} /\ total = 0

---------------------------------------------------------------------------
(* The walks: a script, a tree and ignore files, then load and walk.       *)

\* only fix_eof takes its root from the command line (--root): the other
\* scripts search upward for a marker file, and their root is a directory
Init ==
    /\ RootIdle /\ LogIdle /\ PipIdle
    /\ tool \in Tools
    /\ root \in (IF tool = FIX_EOF THEN Roots ELSE {"dir"})
    /\ tree \in (IF root = "dir" THEN Trees ELSE {{}})
    /\ ignoreFiles \in (IF root = "dir"
                        THEN IgnoreChoices(tool,
                                {NoFile, ModulesFile}
                                \cup {File(ls) : ls \in SeqsUpTo(WalkLines, MaxLines)})
                        ELSE {<<NoFile, NoFile, NoFile>>})
    /\ pc = "load"
    /\ patterns = <<>> /\ ignore_spec = <<>> /\ stack = <<>> /\ out = {} /\ total = 0
    /\ exc = "" /\ exit_code = Running
    /\ EofIdle /\ OrchIdle /\ FileIdle

Next ==
    \/ Load
    \/ CountStep
    \/ CountDone
    \/ ScanStep
    \/ ScanDone
    \/ RecurseCall
    \/ RecurseReturn
    \/ AnalyzeRglob
    \/ BuildTree

Spec == Init /\ [][Next]_vars

\* the walks of the trees with a link cycle; a script that is running takes
\* its next step
InitCycle == Init /\ tree \in CycleTrees /\ root = "dir"

FairSpec == InitCycle /\ [][Next]_vars /\ WF_vars(Next)

(* The loaders on their own, on lines with comments, escapes and padding.  *)

InitLoad ==
    /\ RootIdle /\ LogIdle /\ PipIdle
    /\ tool \in Loaders
    /\ tree = {}
    /\ ignoreFiles \in IgnoreChoices(tool,
            {NoFile} \cup {File(ls) : ls \in SeqsUpTo(LoadLines, MaxLoadLines)})
    /\ pc = "load_only"
    /\ patterns = <<>> /\ ignore_spec = <<>> /\ stack = <<>> /\ out = {} /\ total = 0
    /\ EofIdle /\ ProcIdle /\ OrchIdle /\ FileIdle

NextLoad == LoadOnly

SpecLoad == InitLoad /\ [][NextLoad]_vars

(* The orchestrators: a project tree, a .gitignore and a cache file.        *)

L_organization == <<"o","r","g","a","n","i","z","a","t","i","o","n","/">>

InUtils(name) == <<D_code_maintenance, D_code_utils, name>>
InOrg(name)   == <<D_code_maintenance, D_organization, name>>
InEnv(name)   == <<D_code_maintenance, D_update_env, name>>

\* code_maintenance as the repository holds it
FullTree ==
    {Dir(code_dir), Dir(<<D_code_maintenance, D_code_utils>>),
     Dir(<<D_code_maintenance, D_organization>>), Dir(update_env_dir)}
    \cup {Reg(InUtils(n)) : n \in {S_run_all, S_comment_git, S_fix_eof,
                                   S_fix_indent, S_lint, S_analytics,
                                   S_structure}}
    \cup {Reg(InOrg(n)) : n \in {S_analytics, S_structure}}
    \cup {Reg(InEnv(n)) : n \in {S_update_all, S_update_global, S_update_venv,
                                 S_update_node}}

\* the same with one script gone, and a root without code_maintenance
OrchTrees ==
    {FullTree, {}}
    \cup {FullTree \ {Reg(x)} : x \in {InUtils(S_lint), InUtils(S_fix_eof),
                                       InEnv(S_update_node)}}

OrchIgnores == {NoFile, File(<<L_organization>>), File(<<S_fix_eof>>)}

\* where a script of the repository lies
HomeOf(name) ==
    IF name \in {S_update_all, S_update_global, S_update_venv, S_update_node}
    THEN InEnv(name) ELSE InUtils(name)

Json(v) == [state |-> "json", value |-> v]

\* cache files that hold no mapping at all
BrokenCaches ==
    {[state |-> "absent"], [state |-> "empty"], [state |-> "invalid"],
     Json(J_null), Json(J_list), Json(J_num(5)),
     Json(J_str(InRoot(InUtils(S_fix_eof))))}

One(k, v) == Json(J_map([x \in {k} |-> v]))

\* mappings: none, the one a run leaves behind, and one entry that is stale,
\* ignored, outside the root, another script, no string or null
MapCaches(tl) ==
    {Json(J_map(EmptyMap)),
     Json(J_map([n \in {NamesOf(tl)[i] : i \in 1..Len(NamesOf(tl))} |->
                    J_str(InRoot(HomeOf(n)))]))}
    \cup {One(NamesOf(tl)[1], v) :
            v \in {J_str(InRoot(InUtils(S_run_all))),
                   J_str(InRoot(InUtils(S_comment_git))),
                   J_str(InRoot(<<D_code_maintenance, NamesOf(tl)[1]>>)),
                   J_str(Outside(OUTSIDE_FILE)),
                   J_num(5), J_null}}
    \cup (IF tl = RUN_ALL
          THEN {One(S_analytics, J_str(InRoot(InOrg(S_analytics))))}
          ELSE {})

\* the log files maintain may find: none, the log of a run of fix_eof
\* alone, the renamed logs of an earlier run of maintain, or all of them
OldLogs ==
    {NoLogs,
     {LogFile(FIX_EOF_LOG, "cache", "old")},
     {LogFile(FIX_EOF_1_LOG, "cache", "old"),
      LogFile(FIX_EOF_2_LOG, "cache", "old")},
     {LogFile(FIX_EOF_LOG, "cache", "old"),
      LogFile(FIX_EOF_1_LOG, "cache", "old"),
      LogFile(FIX_EOF_2_LOG, "cache", "old")}}

InitOrch ==
    /\ RootIdle /\ PipIdle
    /\ tool \in Orchestrators
    /\ tree \in OrchTrees
    /\ ignoreFiles \in {<<g, NoFile, NoFile>> : g \in OrchIgnores}
    /\ cacheFile \in BrokenCaches \cup MapCaches(tool)
    /\ pc = "orch_load"
    /\ patterns = <<>> /\ ignore_spec = <<>> /\ stack = <<>> /\ out = {} /\ total = 0
    /\ cache_data = J_map(EmptyMap) /\ updated_cache = EmptyMap
    /\ script_paths = <<>> /\ scanned = 0 /\ saved_cache = NotSaved
    /\ started = <<>>
    /\ IF tool = MAINTAIN
       THEN logs \in OldLogs /\ log_root \in {"same", "other"}
       ELSE LogIdle
    /\ EofIdle /\ ProcIdle /\ FileIdle

NextOrch ==
    \/ OrchLoad
    \/ Locate
    \/ SaveCache
    \/ RunStep

SpecOrch == InitOrch /\ [][NextOrch]_vars

(* The EOF normaliser applied to one file, again and again.                *)

InitEof ==
    /\ RootIdle /\ LogIdle /\ PipIdle
    /\ WalkIdle
    /\ pc = "eof"
    /\ disk \in SeqsUpTo(Bytes, MaxTail)
    /\ mode \in [pre : {0, MAX_FILE_SIZE - 1, MAX_FILE_SIZE},
                 readable : BOOLEAN, writable : BOOLEAN]
    /\ hist = <<disk>>
    /\ runs = <<>> /\ writes = <<>>
    /\ ProcIdle /\ OrchIdle /\ FileIdle

NextEof == Apply

SpecEof == InitEof /\ [][NextEof]_vars

(* The tools of the second phase, each on a list of files the scan found. *)

ToolContents ==
    {<<"a", LF>>, <<"a">>, <<SP, "a", LF>>, <<SP, BAD, LF>>, <<BAD, LF>>}

\* the suffix matters to lint_and_format alone, which hands the files to
\* external commands and reads none itself
ToolFiles(tl) ==
    IF tl = LINT
    THEN [ext : {"py", "js"}, bytes : {<<"a", LF>>, <<SP, "a", LF>>},
          readable : {TRUE}, writable : BOOLEAN]
    ELSE [ext : {"py"}, bytes : ToolContents, readable : BOOLEAN,
          writable : BOOLEAN]

MaxFiles == 2

Envs(tl) ==
    IF tl = GEN_DOCS
    THEN {[NoEnv EXCEPT !.docs = d] : d \in {"absent", "no_conf", "ready"}}
    ELSE IF tl = STRUCT
    THEN {NoEnv, [NoEnv EXCEPT !.root_found = FALSE],
          [NoEnv EXCEPT !.missing = {TREE_CMD}],
          [NoEnv EXCEPT !.out_writable = FALSE]}
    ELSE IF tl = LINT
    THEN {NoEnv, [NoEnv EXCEPT !.root_found = FALSE],
          [NoEnv EXCEPT !.missing = {"black"}],
          [NoEnv EXCEPT !.missing = {NPX}]}
    ELSE {NoEnv, [NoEnv EXCEPT !.root_found = FALSE]}

InitTools ==
    /\ RootIdle /\ LogIdle /\ PipIdle
    /\ tool \in FileTools \cup CommandTools
    /\ ignoreFiles = <<NoFile, NoFile, NoFile>> /\ tree = {}
    /\ patterns = <<>> /\ ignore_spec = <<>> /\ stack = <<>> /\ out = {}
    /\ total = 0
    /\ pc = "tool"
    /\ EofIdle /\ ProcIdle /\ OrchIdle
    /\ code_files \in (IF tool \in FileTools
                       THEN UNION {[1..n -> ToolFiles(tool)] : n \in 0..MaxFiles}
                       ELSE {<<>>})
    \* lint_and_format goes through its Python files, then its JS/TS files
    /\ \A i \in 1..Len(code_files) :
          code_files[i].ext = "js"
              => \A j \in i..Len(code_files) : code_files[j].ext = "js"
    /\ orig = code_files
    /\ done = 0 /\ log = <<>> /\ invoked = <<>> /\ fatal = {}
    /\ dry_run \in (IF tool \in {FIX_EOF, LINT} THEN BOOLEAN ELSE {FALSE})
    /\ env \in Envs(tool)

NextTools ==
    \/ ToolStart
    \/ ProcessFile
    \/ ToolEnd
    \/ GenerateDocs
    \/ ProjectStruct

SpecTools == InitTools /\ [][NextTools]_vars

(* Root discovery from every directory of a chain of MaxDepth levels.     *)

MaxDepth == 3

InitRoot ==
    /\ LogIdle /\ PipIdle
    /\ tool \in Discoverers
    /\ ignoreFiles = <<NoFile, NoFile, NoFile>> /\ tree = {}
    /\ patterns = <<>> /\ ignore_spec = <<>> /\ stack = <<>> /\ out = {}
    /\ total = 0
    /\ pc = "import"
    /\ EofIdle /\ ProcIdle /\ OrchIdle /\ FileIdle
    /\ markers \in [1..(MaxDepth + 1) -> {"none", "file", "dir"}]
    /\ start_path \in 0..MaxDepth
    /\ env_root \in (IF tool = FIX_EOF THEN {"unset", "missing", "exists"}
                     ELSE {"unset"})
    /\ args_root \in (IF tool = FIX_EOF THEN {NoDir, ArgDir} ELSE {NoDir})
    /\ PROJECT_ROOT = NoDir /\ project_root = NoDir

NextRoot ==
    \/ ModuleLoad
    \/ MainRoot
    \/ FindRoot

SpecRoot == InitRoot /\ [][NextRoot]_vars

(* update_venv in every state of the environment.                         *)

InitVenv ==
    /\ RootIdle /\ LogIdle
    /\ tool = UPDATE_VENV
    /\ ignoreFiles = <<NoFile, NoFile, NoFile>> /\ tree = {}
    /\ patterns = <<>> /\ ignore_spec = <<>> /\ stack = <<>> /\ out = {}
    /\ total = 0
    /\ pc = "venv"
    /\ EofIdle /\ ProcIdle /\ OrchIdle /\ FileIdle
    /\ pip \in PipStates
    /\ attempt = 0 /\ resolved = "running"

NextVenv ==
    \/ VenvPrepare
    \/ ResolvePass
    \/ VenvFinish

SpecVenv == InitVenv /\ [][NextVenv]_vars




---------------------------------------------------------------------------
(* Properties of the walks.                                                *)

\* the directories above a path, nearest the root first
Ancestors(path) == {SubSeq(path, 1, k) : k \in 1..(Len(path) - 1)}

\* C1: once a directory is matched by the ignore set, nothing beneath it is
\* produced by the stack walker of fix_eof, by collect_non_ignored or by the
\* rglob-based analyze_tree, whatever negation rule re-includes a descendant.
C1_PruningDominatesNegation ==
    (pc = "done" /\ tool \in {FIX_EOF, COLLECT, RGLOB})
        => \A q \in out : \A a \in Ancestors(q) : ~Ignored(a)

FullListing(t) == {q \in rglob(t) : is_file(t, q)}

\* C3: when no entry of the tree is matched by any ignore rule, the files the
\* walk produces are exactly the files of a full recursive listing of the
\* root (for fix_eof, those with a code extension): none missing, none added.
C3_NoRuleFullListing ==
    (pc = "done" /\ tool \in {FIX_EOF, COLLECT}
        /\ \A q \in rglob(tree) : ~Ignored(q))
        => FilesProduced =
              {q \in FullListing(tree) : tool = FIX_EOF => is_code_file(q)}

\* Path.is_symlink(): the entry itself, not what it points to
IsLink(t, path) ==
    /\ path # <<>>
    /\ Stat(t, Pop(path)).ok
    /\ Has(t, Stat(t, Pop(path)).real \o <<NameOf(path)>>)
    /\ KindOf(t, Stat(t, Pop(path)).real \o <<NameOf(path)>>) = "link"

\* C8: the stack walk of fix_eof and of scan_for_files never follows a
\* symbolic link: no produced path lies beneath a link, a broken link is not
\* produced, and the walk of a tree with a broken link raises no error.
C8_NeverFollowsLinks ==
    tool \in StackTools
        => /\ (\E e \in tree : e.k = "link" /\ ~Stat(tree, e.p).ok) => pc # "error"
           /\ \A q \in out :
                 /\ \A a \in Ancestors(q) : ~IsLink(tree, a)
                 /\ ~(IsLink(tree, q) /\ ~Stat(tree, q).ok)

\* C12: when the root given to the walk of fix_eof does not exist or is not
\* a directory, the script stops on a not-found error (FileNotFoundError)
\* with nothing produced and no file rewritten, and exits non-zero.
C12_BadRootFailsFirst ==
    (tool = FIX_EOF /\ root # "dir" /\ pc # "load")
        => /\ pc = "error"
           /\ exc = "FileNotFoundError"
           /\ out = {} /\ writes = <<>>
           /\ exit_code \notin {Running, 0}

\* C7: on every tree with a symbolic-link cycle the walk of fix_eof and of
\* collect_non_ignored comes to its end with an empty work stack, and never
\* stops on an error on the way.
C7_CycleWalkTerminates ==
    /\ [](tool \in {FIX_EOF, COLLECT} => pc # "error")
    /\ tool \in {FIX_EOF, COLLECT} => <>(pc = "done" /\ stack = <<>>)

---------------------------------------------------------------------------
(* Properties of the loaders.                                              *)

\* a line that names a directory: it ends in "/" and holds no '#'
IsDirLine(line) ==
    /\ endswith(strip(line), "/")
    /\ ~Contains(line, "#")
    /\ rstripChar(strip(line), "/") # <<>>

\* C4: for every line of the ignore file that ends in "/", every loader
\* emits the bare name followed by name/**, and the loaded set excludes the
\* directory itself as well as the paths beneath it.
C4_DirectoryExpansion ==
    pc = "loaded"
        => \A i \in 1..Len(LinesOf(ignoreFiles[1])) :
              IsDirLine(ignoreFiles[1].lines[i])
                 => \E base \in {rstripChar(strip(ignoreFiles[1].lines[i]), "/")} :
                       /\ \E j \in 1..(Len(patterns) - 1) :
                             /\ strip(patterns[j]) = base
                             /\ strip(patterns[j + 1]) = base \o STARSTAR
                       /\ match_file(ignore_spec, <<base>>)
                       /\ match_file(ignore_spec, <<base, N_x>>)

\* C9: every loader appends .git and .git/** whatever the ignore files hold,
\* so that .git and the paths beneath it are excluded by every loaded set.
C9_GitRulesAppended ==
    pc = "loaded"
        => /\ \E i \in 1..Len(patterns) : patterns[i] = GIT
           /\ \E i \in 1..Len(patterns) : patterns[i] = GIT_ALL
           /\ match_file(ignore_spec, <<GIT>>)
           /\ match_file(ignore_spec, <<GIT, N_cpy>>)

\* the text before the first '#' that no backslash precedes
BeforeUnescapedHash(raw) ==
    IF \E k \in 1..Len(raw) : raw[k] = "#" /\ (k = 1 \/ raw[k - 1] # "\\")
    THEN SubSeq(raw, 1,
                (CHOOSE k \in 1..Len(raw) :
                    /\ raw[k] = "#" /\ (k = 1 \/ raw[k - 1] # "\\")
                    /\ \A j \in 1..(k - 1) :
                          ~(raw[j] = "#" /\ (j = 1 \/ raw[j - 1] # "\\"))) - 1)
    ELSE raw

\* the loaders that cut an inline comment
InlineLoaders == {FIX_EOF, INDENT, LINT, RUN_ALL, COLLECT, RGLOB}

\* C10: a non-comment line gives the text before its first unescaped '#',
\* trimmed; an escaped '#' does not start a comment and stays in the pattern.
C10_UnescapedHashSplits ==
    (pc = "loaded" /\ tool \in InlineLoaders
        /\ ignoreFiles[1].exists /\ Len(ignoreFiles[1].lines) = 1
        /\ ~startswith(strip(ignoreFiles[1].lines[1]), "#")
        /\ strip(BeforeUnescapedHash(ignoreFiles[1].lines[1])) # <<>>)
        => rstripChar(strip(patterns[1]), "/")
              = rstripChar(strip(BeforeUnescapedHash(ignoreFiles[1].lines[1])), "/")

\* the ignore files a script lists: IGNORE_FILES of fix_eof.py, .gitignore
\* alone for the others
Listed(tl) == IF tl = FIX_EOF THEN {1, 2, 3} ELSE {1}

Remaining(fs) == SelectSeq(fs, LAMBDA f : f.exists)

\* C11: when a listed ignore file does not exist, loading raises no error
\* and the file gives no pattern: the list is the one the remaining files
\* give, which for a script that lists .gitignore alone is the list an empty
\* .gitignore gives (its implicit rules only).
C11_MissingFileGivesNothing ==
    (pc = "loaded" /\ \E i \in Listed(tool) : ~ignoreFiles[i].exists)
        => /\ exc = ""
           /\ patterns = IF tool = FIX_EOF
                         THEN load_combined_ignore_spec(Remaining(ignoreFiles))
                         ELSE LoaderOf(tool, <<File(<<>>)>>)

C11_Witness ==
    /\ pc = "loaded" /\ tool = FIX_EOF /\ exc = ""
    /\ ~ignoreFiles[1].exists /\ ignoreFiles[2].exists /\ ~ignoreFiles[3].exists
    /\ patterns = <<<<"e">>, <<"e">> \o STARSTAR, GIT, GIT_ALL>>

---------------------------------------------------------------------------
(* Properties of the orchestrators.                                        *)

\* the cache file holds anything but a mapping of names to strings
NotAStringMap(f) ==
    \/ f.state # "json"
    \/ f.value.t # "map"
    \/ \E k \in DOMAIN f.value.m : f.value.m[k].t # "str"

\* C13: whatever the cache file holds that is no mapping of names to path
\* strings (no file, an empty one, invalid JSON, JSON that is no mapping, a
\* mapping with a value that is no string), the orchestrator goes on as
\* with an empty cache: the cache ends no run with an exception, and every
\* script it locates comes from the search.
C13_BrokenCacheIsEmptyCache ==
    (tool \in Orchestrators /\ NotAStringMap(cacheFile) /\ pc # "orch_load")
        => /\ exc \notin {"AttributeError", "TypeError"}
           /\ \A i \in 1..Len(script_paths) : script_paths[i].from = "search"

FileName(i) == NameOf(started[i].path.p)
IndexIn(seq, x) == CHOOSE i \in 1..Len(seq) : seq[i] = x
Failed == started # <<>> /\ started[Len(started)].code # 0

\* C17: the files run_all runs are scripts of SCRIPT_ORDER, in that order;
\* every one but the last run so far has exited with 0; a non-zero exit
\* ends run_all with status 1, and run_all ends with 0 only when every
\* located script has been run.
C17_RunAllOrder ==
    tool = RUN_ALL
        => /\ \A i \in 1..Len(started) :
                 \E k \in 1..Len(SCRIPT_ORDER) : SCRIPT_ORDER[k] = FileName(i)
           /\ \A i, j \in 1..Len(started) :
                 i < j => IndexIn(SCRIPT_ORDER, FileName(i))
                           < IndexIn(SCRIPT_ORDER, FileName(j))
           /\ \A i \in 1..(Len(started) - 1) : started[i].code = 0
           /\ Failed => pc = "exited" /\ exit_code = 1
           /\ (pc = "exited" /\ exit_code = 0) => Len(started) = Len(script_paths)

C19_NeverRunsItselfOrComment ==
    tool = RUN_ALL
        => \A i \in 1..Len(started) :
              FileName(i) # S_run_all /\ ~HasComment(FileName(i))

\* C20: the files maintain runs are update_all.py, run_all.py and
\* fix_eof.py, in that order; none is run unless all three were located;
\* every one but the last run so far has exited with 0, and a failure ends
\* maintain with status 1.
C20_MaintainOrder ==
    tool = MAINTAIN
        => /\ \A i \in 1..Len(started) : FileName(i) = MAINTAIN_STEPS[i]
           /\ started # <<>> => Len(script_paths) = Len(MAINTAIN_KEYS)
           /\ \A i \in 1..(Len(started) - 1) : started[i].code = 0
           /\ Failed => pc = "exited" /\ exit_code = 1

\* C21: when maintain has ended with status 0, the log run_all's fix_eof
\* wrote is fix_eof_1.log of the cache of maintain's root, the log the last
\* fix_eof wrote is fix_eof_2.log there, and that cache holds no file named
\* fix_eof.log.
C21_LogsRenamed ==
    (tool = MAINTAIN /\ pc = "exited" /\ exit_code = 0)
        => /\ \A f \in logs :
                 f.by = "run_all" => f.at = "cache" /\ f.name = FIX_EOF_1_LOG
           /\ LogFile(FIX_EOF_2_LOG, "cache", "final") \in logs
           /\ \A f \in logs : f.at = "cache" => f.name # FIX_EOF_LOG

---------------------------------------------------------------------------
(* Properties of the tools that process files and run commands.            *)

\* the conditions the tools are to end with status 1 on
FatalConditions == {"tool_missing", "root_not_found", "write_failed"}

\* C14: a tool that has ended has ended with status 0 or 1: with 1 when a
\* required external command is missing, the root is not found or a report
\* cannot be written, and with 0 when nothing has failed.
C14_ExitCodes ==
    pc = "exited"
        => /\ exit_code \in {0, 1}
           /\ fatal \cap FatalConditions # {} => exit_code = 1
           /\ fatal = {} => exit_code = 0

\* the tool has met an I/O error on its i-th file: the file cannot be read,
\* cannot be decoded, or cannot be written when the tool has to write it
Erred(i) ==
    /\ ~(tool = FIX_EOF /\ dry_run)
    /\ \/ ~orig[i].readable
       \/ Undecodable(orig[i].bytes)
       \/ Outcome(orig[i]).failed

Reported(i) ==
    \E k \in 1..Len(log) :
        log[k].file = i /\ log[k].level \in {"WARNING", "ERROR"}

\* C15: in fix_eof, fix_indentation and analyze_tree a file with an I/O
\* error has a record in the log and the content it had, and the loop goes
\* on: the tool ends only when it has gone through every file.
C15_FileErrorsAreSkipped ==
    (tool \in {FIX_EOF, INDENT, COLLECT} /\ env.root_found)
        => /\ \A i \in 1..done :
                Erred(i) => Reported(i) /\ code_files[i].bytes = orig[i].bytes
           /\ pc = "exited" => done = Len(code_files)

\* C16: with --dry-run fix_eof and lint_and_format leave every file as it
\* was and run no external command.
C16_DryRunChangesNothing ==
    (tool \in {FIX_EOF, LINT} /\ dry_run)
        => code_files = orig /\ invoked = <<>>

C16_Witness ==
    /\ tool = FIX_EOF /\ dry_run /\ pc = "exited" /\ exit_code = 0
    /\ Len(code_files) = 2 /\ done = 2
    /\ ensure_single_final_newline(code_files[1]).fixed
    /\ code_files = orig

---------------------------------------------------------------------------
(* Properties of root discovery.                                           *)

\* the nearest directory, from level k up to the filesystem root, that
\* holds the marker file
RECURSIVE Nearest(_, _)
Nearest(mk, k) ==
    IF MarkerAt(mk, k) = "file" THEN Level(k)
    ELSE IF k = 0 THEN NoDir
    ELSE Nearest(mk, k - 1)

\* what the search of the tool has returned, once it is over
Discovered ==
    IF tool = FIX_EOF THEN PROJECT_ROOT ELSE project_root

Searched ==
    /\ pc # "import"
    /\ tool = FIX_EOF => env_root # "exists" \/ PROJECT_ROOT # EnvDir
    /\ \A k \in 1..Len(markers) : markers[k] # "dir"

\* C24: fix_eof started with --root R works on R and does not end for lack
\* of a package-lock.json above the script directory.
C24_RootOverridesSearch ==
    (tool = FIX_EOF /\ args_root # NoDir /\ pc # "import")
        => /\ pc # "exited"
           /\ pc = "rooted" => project_root = args_root

\* C25: where the marker is a regular file or absent in every directory of
\* the chain, the search returns the nearest directory, from the start
\* directory up to and including the filesystem root, that holds the
\* marker, and fails only when none of them does.
C25_NearestMarkedAncestor ==
    Searched
        => /\ pc = "exited" <=> Nearest(markers, start_path) = NoDir
           /\ pc # "exited" => Discovered = Nearest(markers, start_path)

---------------------------------------------------------------------------
(* Properties of update_venv.                                              *)

Clean(e) == e.conflicts = {} /\ ~e.other

\* C23: resolve_conflicts returns True only on an environment without
\* conflicts, and returns False only when conflicts remain after the
\* upgrades of the third pass or when `pip check` fails with no line it can
\* parse; update_venv ends with status 1 after False and goes on to the
\* final check after True.
C23_ResolvesWithinThreePasses ==
    tool = UPDATE_VENV
        => /\ resolved = "True" => Clean(pip)
           /\ resolved = "False"
                => \/ attempt = MAX_PASSES /\ pip.conflicts # {}
                   \/ pip.conflicts = {} /\ pip.other
           /\ (pc = "exited" /\ attempt > 0)
                => (exit_code = 1 <=> resolved = "False")

---------------------------------------------------------------------------
(* Properties of the end-of-file normaliser.                               *)

\* C5: a second application of ensure_single_final_newline leaves the file
\* as the first one left it, reports it as not fixed and writes nothing.
C5_EofIdempotent ==
    Len(runs) >= 2
        => /\ hist[3] = hist[2]
           /\ runs[2] = FALSE
           /\ writes[2] = 0

C5_Witness ==
    /\ Len(runs) = 2
    /\ runs[1] = TRUE /\ hist[2] # hist[1]
    /\ runs[2] = FALSE /\ hist[3] = hist[2]

\* C6: after one application to a readable (and writable) file of at most
\* MAX_FILE_SIZE bytes, the file is its old content up to the trailing run
\* of CR and LF, followed by exactly one newline.
C6_ExactlyOneFinalNewline ==
    (Len(runs) >= 1 /\ mode.readable /\ mode.writable
        /\ mode.pre + Len(hist[1]) <= MAX_FILE_SIZE)
        => hist[2] = StripTrailing(hist[1]) \o <<LF>>

=============================================================================
